---- MODULE Spec2Model ----
(***************************************************************************)
(* A model of dataeng_container_tools' secret-censoring output stream      *)
(* (SafeTextIO, safe_textio.py), of the secret loader that feeds its       *)
(* vocabulary and of the registry of secret locations (SecretManager and   *)
(* SecretLocations, secrets_manager.py), of the fallback chain of the      *)
(* modules (modules/base_module.py) and of GCSUriUtils (modules/gcs), of   *)
(* Download.download_to_file (modules/download), CommandLineArguments      *)
(* (cla.py), GCSFileIO.download (modules/gcs) and Snowflake (modules/      *)
(* snowflake/sf.py).                                                       *)
(*                                                                         *)
(* A Python str is a sequence of characters; a character is a one-element  *)
(* string, except the two characters TLA+ cannot spell inside a string,    *)
(* which carry the names NL (U+000A) and EACUTE (U+00E9).                  *)
(***************************************************************************)
EXTENDS Integers, Sequences, FiniteSets, TLC

(***************************************************************************)
(* Characters and strings                                                  *)
(***************************************************************************)
QUOTE == "\""
BSLASH == "\\"
NL == "NL"
EACUTE == "EACUTE"
STAR == "*"

EmptyStr == << >>

RECURSIVE Concat(_)
\* "".join(parts): the concatenation of a sequence of strings.
Concat(parts) ==
    IF parts = << >> THEN EmptyStr ELSE Head(parts) \o Concat(Tail(parts))

\* "*" * n
Stars(n) == [k \in 1..n |-> STAR]

(***************************************************************************)
(* str(value). A value handed to add_words is a str or any other object    *)
(* with __str__; the model carries strings and non-negative integers.      *)
(***************************************************************************)
StrVal(s) == [t |-> "str", s |-> s, n |-> 0]
IntVal(n) == [t |-> "int", s |-> EmptyStr, n |-> n]
\* A list or a dict inside a parsed JSON object: a value that cannot be hashed.
ListVal == [t |-> "list", s |-> EmptyStr, n |-> 0]

Digit(d) == CASE d = 0 -> "0" [] d = 1 -> "1" [] d = 2 -> "2" [] d = 3 -> "3"
              [] d = 4 -> "4" [] d = 5 -> "5" [] d = 6 -> "6" [] d = 7 -> "7"
              [] d = 8 -> "8" [] d = 9 -> "9"

RECURSIVE Decimal(_)
Decimal(n) == IF n < 10 THEN << Digit(n) >> ELSE Decimal(n \div 10) \o << Digit(n % 10) >>

Str(v) == IF v.t = "str" THEN v.s ELSE Decimal(v.n)

(***************************************************************************)
(* The two encodings behind the word variants.                             *)
(***************************************************************************)
\* json.dumps escapes inside the quotes (ensure_ascii is on by default).
JsonEscapeChar(c) ==
    CASE c = QUOTE  -> << BSLASH, QUOTE >>
      [] c = BSLASH -> << BSLASH, BSLASH >>
      [] c = NL     -> << BSLASH, "n" >>
      [] c = EACUTE -> << BSLASH, "u", "0", "0", "e", "9" >>
      [] OTHER      -> << c >>

\* json.dumps(word)
JsonDumps(word) ==
    << QUOTE >> \o Concat([k \in 1..Len(word) |-> JsonEscapeChar(word[k])]) \o << QUOTE >>

\* The unicode-escape codec on one character.
UnicodeEscapeChar(c) ==
    CASE c = BSLASH -> << BSLASH, BSLASH >>
      [] c = NL     -> << BSLASH, "n" >>
      [] c = EACUTE -> << BSLASH, "x", "e", "9" >>
      [] OTHER      -> << c >>

\* word.encode("unicode-escape").decode()
UnicodeEscape(word) == Concat([k \in 1..Len(word) |-> UnicodeEscapeChar(word[k])])

\* Mutant: only the raw word is registered, none of its encoded forms.
GetWordVariantsRawOnly(word) == { word }

\* SafeTextIO.__get_word_variants
GetWordVariants(word) ==
    { word,
      JsonDumps(word),
      UnicodeEscape(JsonDumps(word)),
      UnicodeEscape(word) }

(***************************************************************************)
(* The pattern: an alternation of literals, tried in order at each         *)
(* position (re.escape makes every word a literal).                        *)
(***************************************************************************)
RECURSIVE SortedByLenAsc(_)
\* Mutant: the sort without reverse=True, shortest word first.
SortedByLenAsc(words) ==
    IF words = {} THEN << >>
    ELSE LET w == CHOOSE x \in words : \A y \in words : Len(x) <= Len(y)
         IN  << w >> \o SortedByLenAsc(words \ {w})

RECURSIVE SortedByLenDesc(_)
\* sorted(words, key=len, reverse=True). Words of equal length keep the set's
\* iteration order, which is arbitrary; two different words of one length never
\* match at the same position, so that order does not reach the output.
SortedByLenDesc(words) ==
    IF words = {} THEN << >>
    ELSE LET w == CHOOSE x \in words : \A y \in words : Len(y) <= Len(x)
         IN  << w >> \o SortedByLenDesc(words \ {w})

\* Mutant: the pattern holds the first alternative only.
CompileFirstOnly(alternatives) ==
    IF alternatives = << >> THEN << EmptyStr >> ELSE << Head(alternatives) >>

\* re.compile("|".join(...)): the joined string of no alternative is "", the
\* pattern of the single empty alternative.
Compile(alternatives) == IF alternatives = << >> THEN << EmptyStr >> ELSE alternatives

\* Does the literal `word` match `text` at position i (1-based)?
MatchesAt(word, text, i) ==
    /\ i + Len(word) - 1 <= Len(text)
    /\ \A k \in 1..Len(word) : text[i + k - 1] = word[k]

\* The alternatives that can match at i; after an empty match the engine must
\* advance, so an empty alternative cannot match at the same position again.
Candidates(pattern, text, i, mustAdvance) ==
    { k \in 1..Len(pattern) :
        /\ MatchesAt(pattern[k], text, i)
        /\ (mustAdvance => Len(pattern[k]) > 0) }

\* Alternation is ordered: the first alternative that matches wins.
FirstMatch(pattern, text, i, mustAdvance) ==
    LET c == Candidates(pattern, text, i, mustAdvance)
    IN  pattern[CHOOSE k \in c : \A j \in c : k <= j]

\* Mutant: one mask character for a match, whatever its length.
ReplacementOneStar(matched) == << STAR >>

\* The replacement callback of write: lambda match: "*" * len(match.group(0))
Replacement(matched) == Stars(Len(matched))

RECURSIVE SubFrom(_, _, _, _)
\* pattern.sub(repl, text) from position i on: one left-to-right pass over
\* non-overlapping matches.
SubFrom(pattern, text, i, mustAdvance) ==
    IF Candidates(pattern, text, i, mustAdvance) # {}
    THEN LET m == FirstMatch(pattern, text, i, mustAdvance)
         IN  Replacement(m) \o SubFrom(pattern, text, i + Len(m), Len(m) = 0)
    ELSE IF i > Len(text) THEN EmptyStr
    ELSE << text[i] >> \o SubFrom(pattern, text, i + 1, FALSE)

Sub(pattern, text) == SubFrom(pattern, text, 1, FALSE)

RECURSIVE SpansFrom(_, _, _, _)
\* The spans the pass of Sub matches, as <<start, end>> with end exclusive.
SpansFrom(pattern, text, i, mustAdvance) ==
    IF Candidates(pattern, text, i, mustAdvance) # {}
    THEN LET m == FirstMatch(pattern, text, i, mustAdvance)
         IN  {<< i, i + Len(m) >>} \cup SpansFrom(pattern, text, i + Len(m), Len(m) = 0)
    ELSE IF i > Len(text) THEN {}
    ELSE SpansFrom(pattern, text, i + 1, FALSE)

MatchedSpans(pattern, text) == SpansFrom(pattern, text, 1, FALSE)

(***************************************************************************)
(* Bounds and the inputs the operations are tried on.                      *)
(***************************************************************************)
MaxMsgLen == 3      \* longest message over MsgAlphabet handed to write
MaxCalls == 2       \* calls that may grow the vocabulary or the file list

RECURSIVE StringsUpTo(_, _)
StringsUpTo(alphabet, n) ==
    IF n = 0 THEN {EmptyStr}
    ELSE LET shorter == StringsUpTo(alphabet, n - 1)
         IN  shorter \cup {Append(s, c) : s \in shorter, c \in alphabet}

PssWord == << "p", "@", "s", "s" >>
AbWord == << "a", "b" >>
AbcWord == << "a", "b", "c" >>
QuotedA == << QUOTE, "a", QUOTE >>
TwoQuotes == << QUOTE, QUOTE >>

\* Words with a case of their own: the scenario words, the quoted form of "a"
\* (a variant of "a"), the two-quote string (a variant of ""), and a backslash
\* (whose four variants all differ).
SpecialWords == { PssWord, AbcWord, QuotedA, TwoQuotes, << BSLASH >> }

\* The words of the censoring specification: every short word over {a, b}
\* (prefixes of each other, overlapping each other) and the special ones.
Words == StringsUpTo({"a", "b"}, 2) \cup SpecialWords

\* add_words takes any iterable: none, one or two values at a time.
Batches ==
    {{}} \cup {{StrVal(w)} : w \in Words}
         \cup {{StrVal(EmptyStr), StrVal(TwoQuotes)}, {StrVal(<< "a" >>), StrVal(AbWord)}}

XabcxMsg == << "x", "a", "b", "c", "x" >>
TokenMsg == << "t", "o", "k", "e", "n", " ", "i", "s", " ", QUOTE, "p", "@", "s", "s", QUOTE,
               " ", "e", "n", "d" >>

SpecialMessages == { XabcxMsg, TokenMsg, QuotedA, << "a", BSLASH, BSLASH >> }

MsgAlphabet == {"a", "b"}

\* write takes a str or any object with __str__.
Messages ==
    {StrVal(m) : m \in StringsUpTo(MsgAlphabet, MaxMsgLen) \cup SpecialMessages} \cup {IntVal(15)}

\* The smaller inputs of the specifications that interleave every operation.
FewBatches ==
    { {}, {StrVal(EmptyStr)}, {StrVal(<< "a" >>)}, {StrVal(AbWord)}, {StrVal(TwoQuotes)},
      {IntVal(5)}, {StrVal(<< "a" >>), StrVal(QuotedA)} }

FewMessages ==
    { StrVal(m) : m \in { EmptyStr, << "a" >>, << "a", "b", "a" >>, QuotedA, TwoQuotes } }
        \cup {IntVal(15)}

\* The SafeTextIO objects of the process: the two the module installs when it is
\* imported (setup_default_stdio) and one the program constructs itself.
StdInstances == {"stdout", "stderr"}
Instances == StdInstances \cup {"buffer"}

(***************************************************************************)
(* The secret files on disk (the environment of SecretManager).            *)
(***************************************************************************)
SecretFolder == "/vault/secrets"
NestedFolder == "/vault/nested"
NoFolder == "/nowhere"
Folders == {SecretFolder, NestedFolder, NoFolder}

ApiKeyFile == "/vault/secrets/api_key"
CredsFile == "/vault/secrets/creds.json"
BrokenFile == "/vault/secrets/broken.json"
LockedFile == "/vault/secrets/locked"
AbsentFile == "/vault/secrets/absent"
NestedFile == "/vault/nested/service.json"
EmptyFile == "/vault/other/empty"
SnowflakeFile == "/vault/snowflake/creds.json"
Paths == {ApiKeyFile, CredsFile, BrokenFile, LockedFile, AbsentFile, NestedFile}

\* Mutant: every path is taken to exist.
ExistsAnything(path) == path = path

\* Path.exists()
Exists(path) ==
    path \in {SecretFolder, NestedFolder, ApiKeyFile, CredsFile, BrokenFile, LockedFile, NestedFile,
              EmptyFile, SnowflakeFile}

\* read_text() raises OSError on a file that cannot be read.
Readable(path) == path # LockedFile

ApiKeyText == << " ", "b", "a", NL >>
CredsText == << "{", QUOTE, "u", QUOTE, ":", QUOTE, "a", "b", QUOTE, ",",
                QUOTE, "n", QUOTE, ":", "5", "}" >>
BrokenText == << "{", "a", "}", NL >>
NestedText == << "{", QUOTE, "k", QUOTE, ":", "[", QUOTE, "b", QUOTE, "]", "}" >>
\* {"username":"u","password":"p","rsa_private_key":"k"}
SnowflakeText ==
    << "{", QUOTE, "u", "s", "e", "r", "n", "a", "m", "e", QUOTE, ":", QUOTE, "u",
       QUOTE, ",", QUOTE, "p", "a", "s", "s", "w", "o", "r", "d", QUOTE, ":", QUOTE,
       "p", QUOTE, ",", QUOTE, "r", "s", "a", "_", "p", "r", "i", "v", "a", "t",
       "e", "_", "k", "e", "y", QUOTE, ":", QUOTE, "k", QUOTE, "}" >>

\* Path.read_text()
ReadText(path) ==
    CASE path = ApiKeyFile -> ApiKeyText
      [] path = CredsFile  -> CredsText
      [] path = BrokenFile -> BrokenText
      [] path = NestedFile -> NestedText
      [] path = SnowflakeFile -> SnowflakeText
      [] OTHER             -> EmptyStr

\* folder.glob("**/*") filtered by is_file(), in the order the file system lists them.
FolderFiles(folder) ==
    CASE folder = SecretFolder -> << ApiKeyFile, BrokenFile, CredsFile, LockedFile >>
      [] folder = NestedFolder -> << NestedFile >>
      [] OTHER                 -> << >>

IsSpace(c) == c \in {" ", NL}

RECURSIVE LStrip(_)
LStrip(text) ==
    IF text # << >> /\ IsSpace(Head(text)) THEN LStrip(Tail(text)) ELSE text

RECURSIVE RStrip(_)
RStrip(text) ==
    IF text # << >> /\ IsSpace(text[Len(text)]) THEN RStrip(SubSeq(text, 1, Len(text) - 1)) ELSE text

\* Mutant: the text of a secret file is taken as it is read.
StripNothing(text) == text

\* str.strip()
Strip(text) == RStrip(LStrip(text))

\* The content of a parsed secret: a str, or the dict of a JSON object.
StrContent(text) == [kind |-> "str", s |-> text, d |-> << >>]
DictContent(d) == [kind |-> "dict", s |-> EmptyStr, d |-> d]

\* json.loads on the texts of the files above: the parsed object, or
\* JSONDecodeError (ok = FALSE).
JsonLoads(text) ==
    CASE text = CredsText ->
             [ok |-> TRUE,
              d |-> [k \in {"u", "n"} |-> IF k = "u" THEN StrVal(<< "a", "b" >>) ELSE IntVal(5)]]
      [] text = NestedText -> [ok |-> TRUE, d |-> [k \in {"k"} |-> ListVal]]
      [] text = SnowflakeText ->
             [ok |-> TRUE,
              d |-> [k \in {"username", "password", "rsa_private_key"} |->
                       CASE k = "username" -> StrVal(<< "u" >>)
                         [] k = "password" -> StrVal(<< "p" >>)
                         [] OTHER -> StrVal(<< "k" >>)]]
      [] OTHER -> [ok |-> FALSE, d |-> << >>]

\* parse_secret, lines 77-82: a text in braces is parsed as JSON; when that
\* fails the error is logged and the content stays the text.
ParseContent(text) ==
    IF text # << >> /\ Head(text) = "{" /\ text[Len(text)] = "}" /\ JsonLoads(text).ok
    THEN DictContent(JsonLoads(text).d)
    ELSE StrContent(text)

\* parse_secret up to the update of the registry: TRUE when the file yields a content.
Parses(path) == Exists(path) /\ Readable(path)

SecretContent(path) == ParseContent(Strip(ReadText(path)))

\* The values update_bad_words collects over the registry.
SecretValues(reg) ==
    UNION { IF reg[f].kind = "dict"
            THEN {reg[f].d[k] : k \in DOMAIN reg[f].d}
            ELSE {StrVal(reg[f].s)} : f \in DOMAIN reg }

\* "set(secret.values())" raises TypeError (unhashable type) when a value of a
\* parsed JSON object is a list or a dict; update_bad_words does not catch it
\* and has not yet called add_words.
UpdateRaises(reg) ==
    \E f \in DOMAIN reg :
        reg[f].kind = "dict" /\ \E k \in DOMAIN reg[f].d : reg[f].d[k].t = "list"

\* The words update_bad_words hands to add_words.
SecretWords(reg) == IF UpdateRaises(reg) THEN {} ELSE SecretValues(reg)

(***************************************************************************)
(* State                                                                   *)
(***************************************************************************)
VARIABLES
    bad_words,      \* SafeTextIO._bad_words, shared by every instance
    pattern_cache,  \* SafeTextIO._pattern_cache: the pattern and its version
    constructed,    \* the SafeTextIO instances that exist
    secrets,        \* SecretManager.secrets: path -> content
    files,          \* SecretManager.files
    registered,     \* history: <<route, str(v)>> of every value handed to add_words so far
    calls,          \* history: the calls counted against MaxCalls
    last,           \* history: the most recent call, its inputs and its results
    threads,        \* the call each thread is in: its position and its local variables
    closed,         \* the instances whose wrapped stream has been closed
    instance,       \* SecretLocations._instance: 0 for None, else the object's identity
    locations,      \* the entries of the SecretLocations dict: key -> path
    attributes,     \* the attributes of the SecretLocations object: name -> path
    located,        \* history: the most recent use of SecretLocations
    fallback,       \* history: the most recent parse_secret_with_fallback call
    gcs_uri,        \* the URI handed to GCSUriUtils
    gcs_out,        \* what GCSUriUtils made of it
    download,       \* the Download.download call: its futures, the files, what the caller got
    cla,            \* the CommandLineArguments object and the most recent use of it
    transfer,       \* the GCSFileIO.download call: the transfers in the order they started
    snowflake       \* the Snowflake object and the most recent use of it

\* The state that the sequential operations of SafeTextIO and SecretManager leave alone.
ioVars == << download, cla, transfer, snowflake >>

moduleVars == << instance, locations, attributes, located, fallback, gcs_uri, gcs_out, ioVars >>

elsewhere == << threads, closed, moduleVars >>

vars == << bad_words, pattern_cache, constructed, secrets, files, registered, calls, last,
           elsewhere >>

\* The threads of the process.
Threads == {"T1", "T2", "T3"}

\* A thread that is in no call.
IdleThread ==
    [pc |-> "idle", op |-> "none", values |-> {}, text |-> EmptyStr, start |-> {},
     todo |-> {}, acc |-> {}, words_version |-> 0,
     cached |-> [pattern |-> << EmptyStr >>, version |-> 0],
     pattern |-> << >>, compiled |-> FALSE, out |-> EmptyStr]

\* No path: the value of the preset attributes after SecretLocations.__init__.
NoPath == ""

\* The attributes SecretLocations.__init__ sets.
PresetKeys == {"GCS", "SF", "DS"}

NotLocated ==
    [op |-> "none", key |-> "", id |-> 0, item |-> NoPath, attr |-> NoPath, raised |-> FALSE]

\* The return value None.
NoContent == [kind |-> "none", s |-> EmptyStr, d |-> << >>]

NoFallback ==
    [args |-> << >>, locations |-> << >>, tried |-> << >>, ret |-> NoContent, raised |-> FALSE]

NoUri == [op |-> "none", arg |-> EmptyStr, origin |-> EmptyStr, raised |-> FALSE,
          uri |-> EmptyStr, bucket |-> EmptyStr, path |-> EmptyStr]

\* No Download.download call has been made: nothing is submitted and the disk is empty.
\* future: url -> the state of the task that downloads it; disk: the files that exist,
\* each "partial" or "full"; opened: the files the tasks of this call opened for writing;
\* processed: the futures the caller has taken from as_completed; logged: url -> the number
\* of logger.exception calls for it; yielded: the tuples the generator has yielded;
\* early: a tuple was yielded while another task of the call was still in progress.
NoDownload ==
    [pc |-> "idle", output |-> "none", max_workers |-> 0, urls_to_files |-> << >>,
     future |-> << >>, disk |-> << >>, opened |-> {}, processed |-> {}, logged |-> << >>,
     yielded |-> << >>, ret |-> "none", raised |-> FALSE, early |-> FALSE]

\* No CommandLineArguments() call has been made.  types: group -> the type the last call
\* passed; argv: the arguments on the command line of the last call; status: how the last
\* call ended ("ok", or "exit" for the SystemExit of argparse) and error: why; args: the
\* namespace self.__args, without attributes until a call has parsed; environ: os.environ at the
\* names of the tags; op, ret, raised: the most recent get_input_uris or get_output_uris.
NoArguments ==
    [exists |-> FALSE, types |-> << >>, argv |-> {}, parse_known_args |-> TRUE,
     status |-> "none", error |-> "none", args |-> << >>,
     environ |-> [n \in {"--dag_id", "--run_id", "--namespace", "--pod_name"} |-> ""],
     op |-> "none", ret |-> "none", raised |-> FALSE]

\* No GCSFileIO.download call has been made.  src: the items of the call; started: the
\* transfers in the order they were started, each the position of its item in src and the
\* method that handled it; keys: the items whose object is in the returned dict.
NoTransfer ==
    [op |-> "none", shape |-> "none", src |-> << >>, started |-> << >>, ret |-> "none",
     keys |-> {}, raised |-> "none"]

\* No Snowflake object has been constructed.  exists: the last constructor call returned an
\* object; ctx: how the connection it holds was made, "none" when the attribute was never
\* set; op, raised, ran: the most recent call, what it raised, and whether a query ran.
NoSnowflake == [exists |-> FALSE, ctx |-> "none", op |-> "none", raised |-> "none", ran |-> FALSE]

InitIo ==
    /\ download = NoDownload
    /\ cla = NoArguments
    /\ transfer = NoTransfer
    /\ snowflake = NoSnowflake

InitModules ==
    /\ instance = 0
    /\ locations = << >>
    /\ attributes = << >>
    /\ located = NotLocated
    /\ fallback = NoFallback
    /\ gcs_uri = EmptyStr
    /\ gcs_out = NoUri
    /\ InitIo

InitElsewhere ==
    /\ threads = [t \in Threads |-> IdleThread]
    /\ closed = {}
    /\ InitModules

NoCall ==
    [op |-> "none", inst |-> "", values |-> {}, text |-> EmptyStr, out |-> EmptyStr,
     ret |-> 0, before |-> {}, cache |-> [pattern |-> << EmptyStr >>, version |-> 0],
     used |-> << >>, compiled |-> FALSE, again |-> FALSE, sent |-> << >>, raised |-> FALSE]

Init ==
    /\ bad_words = {}
    /\ pattern_cache = [pattern |-> << EmptyStr >>, version |-> 0]
    /\ constructed = StdInstances
    /\ secrets = << >>
    /\ files = << >>
    /\ registered = {}
    /\ calls = 0
    /\ last = NoCall
    /\ InitElsewhere

(***************************************************************************)
(* SafeTextIO.add_words                                                    *)
(***************************************************************************)
\* "if str(word) not in cls._bad_words": the whole comprehension is evaluated
\* against the vocabulary as it is before the update.
SkipWord(vocab, word) == word \in vocab

\* Mutant: the set is assigned, not updated, so earlier entries are lost.
AddWordsReplace(vocab, values) ==
    UNION { GetWordVariants(Str(v)) : v \in {x \in values : ~SkipWord(vocab, Str(x))} }

AddWordsResult(vocab, values) ==
    vocab \cup UNION { GetWordVariants(Str(v)) : v \in {x \in values : ~SkipWord(vocab, Str(x))} }

AddWords(values) ==
    /\ calls < MaxCalls
    /\ bad_words' = AddWordsResult(bad_words, values)
    /\ registered' = registered \cup {<< "add_words", Str(v) >> : v \in values}
    /\ calls' = calls + 1
    /\ last' = [NoCall EXCEPT !.op = "add_words", !.values = values, !.before = bad_words,
                              !.cache = pattern_cache,
                              !.again = (last.op = "add_words" /\ last.values = values)]
    /\ UNCHANGED << pattern_cache, constructed, secrets, files, elsewhere >>

(***************************************************************************)
(* SafeTextIO.__init__                                                     *)
(***************************************************************************)
\* Mutant: the constructor ignores its bad_words argument.
InitWordsDropped(values) == {}

\* The words the constructor hands on to add_words.
InitWords(values) == values

Construct(inst, values) ==
    /\ inst \notin constructed
    /\ values # {} => calls < MaxCalls
    /\ constructed' = constructed \cup {inst}
    /\ bad_words' = AddWordsResult(bad_words, InitWords(values))
    /\ registered' = registered \cup {<< inst, Str(v) >> : v \in values}
    /\ calls' = IF values = {} THEN calls ELSE calls + 1
    /\ last' = [NoCall EXCEPT !.op = "construct", !.inst = inst, !.values = values,
                              !.before = bad_words, !.cache = pattern_cache]
    /\ UNCHANGED << pattern_cache, secrets, files, elsewhere >>

(***************************************************************************)
(* SafeTextIO.write                                                        *)
(***************************************************************************)
\* Mutant: the pattern is rebuilt only when the cached version is ahead.
CacheMissWhenAhead(cached_version, words_version) == cached_version > words_version

\* "if cached_version != words_version"
CacheMiss(cached_version, words_version) == cached_version # words_version

\* The version stored with a rebuilt pattern (line 138 stores cached_version).
StoredVersion(cached_version, words_version) == cached_version

\* "if not self.__class__._bad_words": the fast path.
SkipCensoring(vocab) == vocab = {}

\* Mutant: the fast path returns without forwarding the text.
FastPathDropped(message_str) == EmptyStr

\* The fast path forwards the message text as it is.
FastPathText(message_str) == message_str

\* What one write does with the message text: the text it forwards, the cache it
\* leaves, the pattern it used and whether it compiled one.
WriteResult(vocab, cache, message_str) ==
    IF SkipCensoring(vocab)
    THEN [out |-> FastPathText(message_str), cache |-> cache, used |-> << >>, compiled |-> FALSE]
    ELSE LET words_version == Cardinality(vocab)
             miss == CacheMiss(cache.version, words_version)
             pattern == IF miss THEN Compile(SortedByLenDesc(vocab)) ELSE cache.pattern
         IN  [out |-> Sub(pattern, message_str),
              cache |-> IF miss
                        THEN [pattern |-> pattern,
                              version |-> StoredVersion(cache.version, words_version)]
                        ELSE cache,
              used |-> pattern,
              compiled |-> miss]

\* TextIO.write of the wrapped destination returns the number of characters written.
DestinationWrite(text) == Len(text)

\* Mutant: a failed write to the destination is tried once more.
ForwardRetry(text, ok) ==
    [sent |-> IF ok THEN << text >> ELSE << text, text >>,
     ret |-> IF ok THEN DestinationWrite(text) ELSE 0,
     raised |-> ~ok]

\* "return self.__old_textio.write(...)": the one call of the destination's
\* write; on a closed stream it raises ValueError, which write does not catch.
Forward(text, ok) ==
    [sent |-> << text >>,
     ret |-> IF ok THEN DestinationWrite(text) ELSE 0,
     raised |-> ~ok]

Write(inst, message) ==
    /\ inst \in constructed
    /\ LET message_str == Str(message)
           r == WriteResult(bad_words, pattern_cache, message_str)
           f == Forward(r.out, inst \notin closed)
       IN  /\ pattern_cache' = r.cache
           /\ last' = [NoCall EXCEPT !.op = "write", !.inst = inst, !.text = message_str,
                                     !.out = r.out, !.ret = f.ret,
                                     !.before = bad_words, !.cache = pattern_cache,
                                     !.used = r.used, !.compiled = r.compiled,
                                     !.sent = f.sent, !.raised = f.raised]
    /\ UNCHANGED << bad_words, constructed, secrets, files, registered, calls, elsewhere >>

(***************************************************************************)
(* SecretManager                                                           *)
(***************************************************************************)
\* secrets[path] = content
Registry(reg, path) ==
    [f \in DOMAIN reg \cup {path} |-> IF f = path THEN SecretContent(path) ELSE reg[f]]

RECURSIVE RegistryAll(_, _)
\* The registry after parse_secret(file, update_bad_words=False) on each file in turn.
RegistryAll(reg, paths) ==
    IF paths = << >> THEN reg
    ELSE RegistryAll(IF Parses(Head(paths)) THEN Registry(reg, Head(paths)) ELSE reg, Tail(paths))

\* Mutant: update_bad_words assigns the vocabulary from the registry.
UpdateBadWordsAssign ==
    /\ calls < MaxCalls
    /\ bad_words' = AddWordsResult({}, SecretWords(secrets))
    /\ registered' = registered \cup {<< "secrets", Str(v) >> : v \in SecretWords(secrets)}
    /\ calls' = calls + 1
    /\ last' = [NoCall EXCEPT !.op = "update_bad_words", !.values = SecretWords(secrets),
                              !.before = bad_words, !.cache = pattern_cache,
                              !.raised = UpdateRaises(secrets)]
    /\ UNCHANGED << pattern_cache, constructed, secrets, files, elsewhere >>

\* SecretManager.update_bad_words
UpdateBadWords ==
    /\ calls < MaxCalls
    /\ bad_words' = AddWordsResult(bad_words, SecretWords(secrets))
    /\ registered' = registered \cup {<< "secrets", Str(v) >> : v \in SecretWords(secrets)}
    /\ calls' = calls + 1
    /\ last' = [NoCall EXCEPT !.op = "update_bad_words", !.values = SecretWords(secrets),
                              !.before = bad_words, !.cache = pattern_cache,
                              !.raised = UpdateRaises(secrets)]
    /\ UNCHANGED << pattern_cache, constructed, secrets, files, elsewhere >>

\* SecretManager.parse_secret(file, update_bad_words=update)
ParseSecret(path, update) ==
    IF ~Parses(path)
    THEN /\ last' = [NoCall EXCEPT !.op = "parse_secret", !.text = << path >>,
                                   !.before = bad_words, !.cache = pattern_cache]
         /\ UNCHANGED << bad_words, pattern_cache, constructed, secrets, files, registered, calls, elsewhere >>
    ELSE /\ calls < MaxCalls
         /\ secrets' = Registry(secrets, path)
         /\ files' = Append(files, path)
         /\ LET values == IF update THEN SecretWords(secrets') ELSE {}
                raised == update /\ UpdateRaises(secrets')
            IN  /\ bad_words' = AddWordsResult(bad_words, values)
                /\ registered' = registered \cup {<< "secrets", Str(v) >> : v \in values}
                /\ last' = [NoCall EXCEPT !.op = "parse_secret", !.text = << path >>,
                                          !.values = values,
                                          !.ret = IF raised THEN 0 ELSE 1,
                                          !.before = bad_words, !.cache = pattern_cache,
                                          !.raised = raised]
         /\ calls' = calls + 1
         /\ UNCHANGED << pattern_cache, constructed, elsewhere >>

\* SecretManager.process_secret_folder(folder)
ProcessSecretFolder(folder) ==
    IF ~Exists(folder)
    THEN /\ last' = [NoCall EXCEPT !.op = "process_secret_folder", !.text = << folder >>,
                                   !.before = bad_words, !.cache = pattern_cache]
         /\ UNCHANGED << bad_words, pattern_cache, constructed, secrets, files, registered, calls, elsewhere >>
    ELSE /\ calls < MaxCalls
         /\ secrets' = RegistryAll(secrets, FolderFiles(folder))
         /\ files' = files \o SelectSeq(FolderFiles(folder), Parses)
         /\ bad_words' = AddWordsResult(bad_words, SecretWords(secrets'))
         /\ registered' = registered \cup {<< "secrets", Str(v) >> : v \in SecretWords(secrets')}
         /\ last' = [NoCall EXCEPT !.op = "process_secret_folder", !.text = << folder >>,
                                   !.values = SecretWords(secrets'),
                                   !.ret = IF UpdateRaises(secrets') THEN 0 ELSE 1,
                                   !.before = bad_words, !.cache = pattern_cache,
                                   !.raised = UpdateRaises(secrets')]
         /\ calls' = calls + 1
         /\ UNCHANGED << pattern_cache, constructed, elsewhere >>

(***************************************************************************)
(* The specifications                                                      *)
(***************************************************************************)
\* SafeTextIO under every interleaving of its operations.
Next ==
    \/ \E values \in FewBatches : AddWords(values)
    \/ \E inst \in Instances, values \in FewBatches : Construct(inst, values)
    \/ \E inst \in Instances, message \in FewMessages : Write(inst, message)

Spec == Init /\ [][Next]_vars

\* The censoring of one message: any vocabulary add_words can build, then one
\* write of any message.
NextCensor ==
    \/ \E values \in Batches : AddWords(values)
    \/ \E message \in Messages : last.op # "write" /\ Write("stdout", message)

SpecCensor == Init /\ [][NextCensor]_vars

\* SecretManager together with the operations of SafeTextIO.
NextSecrets ==
    \/ \E values \in {{}, {StrVal(<< "a" >>)}} : AddWords(values)
    \/ \E inst \in Instances, values \in {{}, {StrVal(AbWord)}} : Construct(inst, values)
    \/ \E inst \in Instances, message \in {StrVal(AbWord), IntVal(15)} : Write(inst, message)
    \/ UpdateBadWords
    \/ \E path \in Paths, update \in BOOLEAN : ParseSecret(path, update)
    \/ \E folder \in Folders : ProcessSecretFolder(folder)

SpecSecrets == Init /\ [][NextSecrets]_vars

(***************************************************************************)
(* Properties                                                              *)
(***************************************************************************)
Range(seq) == {seq[k] : k \in DOMAIN seq}

Wrote == last.op = "write"

\* The positions of `text` inside a span the write matched.
MaskedPositions(pattern, text) ==
    LET spans == MatchedSpans(pattern, text)
    IN  {i \in 1..Len(text) : \E sp \in spans : sp[1] <= i /\ i < sp[2]}

\* C1: every write censors with a pattern that holds at least every word that
\* was in the vocabulary when the write was invoked, whatever pattern the cache
\* held from earlier writes: the text it forwards is the text a pattern built
\* from that vocabulary gives.
C1_WriteCoversVocabulary ==
    (Wrote /\ last.before # {}) =>
        /\ last.before \subseteq Range(last.used)
        /\ last.out = Sub(Compile(SortedByLenDesc(last.before)), last.text)

\* A write that found a pattern cached by an earlier write, built before a word
\* of the message was added.
C1_Witness ==
    /\ Wrote
    /\ last.cache.pattern # << EmptyStr >>
    /\ \E w \in last.before \ Range(last.cache.pattern) :
          /\ Len(w) > 0
          /\ \E p \in 1..Len(last.text) : MatchesAt(w, last.text, p)
    /\ last.out # last.text

\* C2: no position of the message that lies inside an occurrence of a
\* vocabulary entry is forwarded unmasked, also where occurrences overlap.
C2_EveryOccurrenceMasked ==
    Wrote =>
        \A w \in last.before : \A p \in 1..Len(last.text) :
            MatchesAt(w, last.text, p) =>
                \A k \in p..(p + Len(w) - 1) : k <= Len(last.out) /\ last.out[k] = STAR

C4_EmptyVocabularyForwards ==
    (Wrote /\ last.before = {}) =>
        /\ last.out = last.text
        /\ ~last.compiled
        /\ pattern_cache = last.cache

\* A write of a non-empty message while the vocabulary is empty.
C4_Witness == Wrote /\ last.before = {} /\ last.text # EmptyStr /\ bad_words = {}

XabcxMasked == << "x", STAR, STAR, STAR, "x" >>

C6_SharedVocabulary ==
    Wrote =>
        \A r \in registered :
            /\ r[2] \in Range(last.used)
            /\ \A p \in 1..Len(last.text) :
                  (Len(r[2]) > 0 /\ MatchesAt(r[2], last.text, p)) => last.out[p] = STAR
            /\ last.text = r[2] => last.out = Stars(Len(r[2]))

\* A write through one of the standard streams of a word that the constructor
\* of the later instance registered.
C6_Witness ==
    /\ Wrote
    /\ last.inst \in StdInstances
    /\ \E r \in registered :
          /\ r[1] = "buffer"
          /\ Len(r[2]) > 0
          /\ last.text = r[2]
          /\ last.out = Stars(Len(r[2]))

\* C7: no step of any operation removes or changes a vocabulary entry.
C7_InsertOnly == [][bad_words \subseteq bad_words']_vars

\* The secret folder was processed when the vocabulary already held words,
\* and added to them.
C7_Witness ==
    /\ last.op = "process_secret_folder"
    /\ last.before # {}
    /\ last.before \subseteq bad_words
    /\ last.before # bad_words

\* C8: an add_words call with the values of the add_words call just before it
\* leaves the vocabulary as that call left it.
C8_IdempotentInsertion ==
    (last.op = "add_words" /\ last.again) => bad_words = last.before

\* add_words([s]) was called twice in a row, and the first call had added s.
C8_Witness ==
    /\ last.op = "add_words"
    /\ last.again
    /\ \E v \in last.values : last.values = {v} /\ Str(v) \in bad_words
    /\ Cardinality(bad_words) >= 2

\* C9: after add_words(values), all four variants of str(v) are in the
\* vocabulary for every v of values.
C9_VariantClosure ==
    last.op = "add_words" =>
        \A v \in last.values : GetWordVariants(Str(v)) \subseteq bad_words

TokenQuotesKept == << "t", "o", "k", "e", "n", " ", "i", "s", " ", QUOTE, STAR, STAR, STAR, STAR,
                      QUOTE, " ", "e", "n", "d" >>
TokenQuotesMasked == << "t", "o", "k", "e", "n", " ", "i", "s", " ", STAR, STAR, STAR, STAR, STAR,
                        STAR, " ", "e", "n", "d" >>

\* The scenario of C10: add_words(["p@ss"]) on an empty vocabulary, then
\* write('token is "p@ss" end').
PssScenario ==
    /\ Wrote
    /\ last.text = TokenMsg
    /\ last.before = AddWordsResult({}, {StrVal(PssWord)})

\* C10 as claimed: the write forwards 'token is "****" end', the quotes visible.
C10_QuotesStayVisible == PssScenario => last.out = TokenQuotesKept

\* C10 as amended: the write forwards 'token is ****** end'; the JSON-quoted
\* variant is the longer match, so the quotes are masked with the secret.
C10_QuotesMasked == PssScenario => last.out = TokenQuotesMasked

C10_Witness == PssScenario /\ Len(last.out) = Len(TokenMsg)

\* C11: a write that rebuilds the pattern stores the cardinality of the
\* vocabulary it was built from, and a write that directly follows a write
\* (no add_words call in between) reuses the cached pattern without compiling.
C11_CacheHitOnStableVocabulary ==
    [][(last'.op = "write" /\ last'.before # {}) =>
          /\ last'.compiled => pattern_cache'.version = Cardinality(last'.before)
          /\ (Wrote /\ last.before = last'.before) => ~last'.compiled]_vars

(***************************************************************************)
(* SafeTextIO called from several threads.  The interpreter switches       *)
(* threads between two accesses to the class variables; one access (a       *)
(* membership test, len, sorted, set.update, an attribute store) is atomic. *)
(***************************************************************************)
\* The thread enters add_words(values).
CallAddWords(t, values) ==
    /\ threads[t].pc = "idle"
    /\ calls < MaxCalls
    /\ threads' = [threads EXCEPT ![t] =
                      [IdleThread EXCEPT !.pc = IF values = {} THEN "add_update" ELSE "add_eval",
                                         !.op = "add_words", !.values = values,
                                         !.start = bad_words, !.todo = values]]
    /\ calls' = calls + 1
    /\ UNCHANGED << moduleVars, closed, bad_words, pattern_cache, constructed, secrets, files, registered, last >>

\* One iteration of the set comprehension: "if str(word) not in cls._bad_words"
\* reads the vocabulary as it is now.
AddWordsEval(t) ==
    /\ threads[t].pc = "add_eval"
    /\ \E word \in threads[t].todo :
          threads' = [threads EXCEPT
                         ![t].todo = @ \ {word},
                         ![t].acc = IF SkipWord(bad_words, Str(word))
                                    THEN @ ELSE @ \cup GetWordVariants(Str(word)),
                         ![t].pc = IF threads[t].todo = {word} THEN "add_update" ELSE "add_eval"]
    /\ UNCHANGED << moduleVars, closed, bad_words, pattern_cache, constructed, secrets, files, registered, calls,
                    last >>

\* cls._bad_words.update(...) with the set the comprehension built.
AddWordsUpdate(t) ==
    /\ threads[t].pc = "add_update"
    /\ bad_words' = bad_words \cup threads[t].acc
    /\ threads' = [threads EXCEPT ![t].pc = "idle"]
    /\ UNCHANGED << moduleVars, closed, pattern_cache, constructed, secrets, files, registered, calls, last >>

\* The thread enters write(message) on one of the standard streams.
CallWrite(t, message) ==
    /\ threads[t].pc = "idle"
    /\ calls < MaxCalls
    /\ threads' = [threads EXCEPT ![t] =
                      [IdleThread EXCEPT !.pc = "write_check", !.op = "write",
                                         !.text = Str(message), !.start = bad_words]]
    /\ calls' = calls + 1
    /\ UNCHANGED << moduleVars, closed, bad_words, pattern_cache, constructed, secrets, files, registered, last >>

\* "if not self.__class__._bad_words: return self.__old_textio.write(message_str)"
WriteCheck(t) ==
    /\ threads[t].pc = "write_check"
    /\ threads' = IF SkipCensoring(bad_words)
                  THEN [threads EXCEPT ![t].out = FastPathText(threads[t].text),
                                       ![t].pc = "idle"]
                  ELSE [threads EXCEPT ![t].pc = "write_len"]
    /\ UNCHANGED << moduleVars, closed, bad_words, pattern_cache, constructed, secrets, files, registered, calls,
                    last >>

\* "words_version = len(self.__class__._bad_words)"
WriteLen(t) ==
    /\ threads[t].pc = "write_len"
    /\ threads' = [threads EXCEPT ![t].words_version = Cardinality(bad_words),
                                  ![t].pc = "write_cache"]
    /\ UNCHANGED << moduleVars, closed, bad_words, pattern_cache, constructed, secrets, files, registered, calls,
                    last >>

\* "pattern, cached_version = self.__class__._pattern_cache" and the comparison.
WriteCache(t) ==
    /\ threads[t].pc = "write_cache"
    /\ threads' = IF CacheMiss(pattern_cache.version, threads[t].words_version)
                  THEN [threads EXCEPT ![t].cached = pattern_cache, ![t].pc = "write_sort"]
                  ELSE [threads EXCEPT ![t].cached = pattern_cache,
                                       ![t].pattern = pattern_cache.pattern,
                                       ![t].pc = "write_sub"]
    /\ UNCHANGED << moduleVars, closed, bad_words, pattern_cache, constructed, secrets, files, registered, calls,
                    last >>

\* sorted(self.__class__._bad_words, ...) reads the vocabulary as it is now;
\* joining and compiling work on the thread's own list.
WriteSort(t) ==
    /\ threads[t].pc = "write_sort"
    /\ threads' = [threads EXCEPT ![t].pattern = Compile(SortedByLenDesc(bad_words)),
                                  ![t].compiled = TRUE,
                                  ![t].pc = "write_store"]
    /\ UNCHANGED << moduleVars, closed, bad_words, pattern_cache, constructed, secrets, files, registered, calls,
                    last >>

\* Mutant: the version stored is the cardinality at the time of the store.
WriteStoreLateVersion(t) ==
    /\ threads[t].pc = "write_store"
    /\ pattern_cache' = [pattern |-> threads[t].pattern, version |-> Cardinality(bad_words)]
    /\ threads' = [threads EXCEPT ![t].pc = "write_sub"]
    /\ UNCHANGED << moduleVars, closed, bad_words, constructed, secrets, files, registered, calls, last >>

\* "self.__class__._pattern_cache = (pattern, cached_version)"
WriteStore(t) ==
    /\ threads[t].pc = "write_store"
    /\ pattern_cache' = [pattern |-> threads[t].pattern,
                         version |-> StoredVersion(threads[t].cached.version,
                                                   threads[t].words_version)]
    /\ threads' = [threads EXCEPT ![t].pc = "write_sub"]
    /\ UNCHANGED << moduleVars, closed, bad_words, constructed, secrets, files, registered, calls, last >>

\* pattern.sub(...) and the forwarding of the censored text.
WriteSub(t) ==
    /\ threads[t].pc = "write_sub"
    /\ threads' = [threads EXCEPT ![t].out = Sub(threads[t].pattern, threads[t].text),
                                  ![t].pc = "idle"]
    /\ UNCHANGED << moduleVars, closed, bad_words, pattern_cache, constructed, secrets, files, registered, calls,
                    last >>

\* What the threads pass to add_words and to write.
ThreadBatches ==
    { {StrVal(<< "a" >>)}, {StrVal(QuotedA)}, {StrVal(<< "b" >>), StrVal(AbWord)} }

ThreadMessages == { StrVal(AbWord), StrVal(QuotedA) }

\* The threads start after the main thread has called add_words once and,
\* perhaps, written once.
InitThreads ==
    /\ \E values \in { {}, {StrVal(<< "a" >>)}, {StrVal(<< "b" >>)} } :
          /\ bad_words = AddWordsResult({}, values)
          /\ registered = {<< "add_words", Str(v) >> : v \in values}
    /\ pattern_cache \in
           { [pattern |-> << EmptyStr >>, version |-> 0],
             WriteResult(bad_words, [pattern |-> << EmptyStr >>, version |-> 0], EmptyStr).cache }
    /\ constructed = StdInstances
    /\ secrets = << >>
    /\ files = << >>
    /\ calls = 0
    /\ last = NoCall
    /\ InitElsewhere

NextThreads ==
    \/ \E t \in Threads, values \in ThreadBatches : CallAddWords(t, values)
    \/ \E t \in Threads : AddWordsEval(t)
    \/ \E t \in Threads : AddWordsUpdate(t)
    \/ \E t \in Threads, message \in ThreadMessages : CallWrite(t, message)
    \/ \E t \in Threads : WriteCheck(t)
    \/ \E t \in Threads : WriteLen(t)
    \/ \E t \in Threads : WriteCache(t)
    \/ \E t \in Threads : WriteSort(t)
    \/ \E t \in Threads : WriteStore(t)
    \/ \E t \in Threads : WriteSub(t)

SpecThreads == InitThreads /\ [][NextThreads]_vars

\* Two threads have called add_words and both calls have returned; the third
\* thread has called nothing.
BothAdded ==
    /\ \A t \in {"T1", "T2"} : threads[t].pc = "idle" /\ threads[t].op = "add_words"
    /\ threads["T3"].op = "none"

\* C12: two add_words calls started from the same vocabulary, run one after
\* the other in either order or interleaved on two threads, end in the
\* vocabulary that either sequential order gives, and every variant either
\* call inserted is in it.
C12_AddWordsCommute ==
    BothAdded =>
        LET V0 == threads["T1"].start \cap threads["T2"].start
            A == threads["T1"].values
            B == threads["T2"].values
        IN  /\ bad_words = AddWordsResult(AddWordsResult(V0, A), B)
            /\ bad_words = AddWordsResult(AddWordsResult(V0, B), A)
            /\ \A t \in {"T1", "T2"} : threads[t].acc \subseteq bad_words

\* C13: under every interleaving of writes with each other and with add_words,
\* a write that has returned censored with a pattern that holds every entry
\* that was in the vocabulary when the write was called (each occurrence of
\* such an entry is masked from its first character on), and the cache never
\* holds a version equal to the present cardinality next to a pattern that
\* lacks a present entry.
C13_BenignRebuildRace ==
    /\ \A t \in Threads :
          (threads[t].op = "write" /\ threads[t].pc = "idle" /\ threads[t].start # {}) =>
              /\ threads[t].start \subseteq Range(threads[t].pattern)
              /\ threads[t].out = Sub(threads[t].pattern, threads[t].text)
              /\ \A w \in threads[t].start : \A p \in 1..Len(threads[t].text) :
                    (Len(w) > 0 /\ MatchesAt(w, threads[t].text, p)) => threads[t].out[p] = STAR
    /\ pattern_cache.version = Cardinality(bad_words) =>
           bad_words \subseteq Range(pattern_cache.pattern)

\* Two writes raced with each other: both found the cache stale and both
\* compiled; the one that returned masked an entry of the message.
C13_Witness ==
    /\ \E t \in Threads :
          /\ threads[t].op = "write" /\ threads[t].compiled
          /\ threads[t].pc = "idle"
          /\ threads[t].out # threads[t].text
          /\ \E u \in Threads \ {t} :
                threads[u].op = "write" /\ threads[u].compiled /\ threads[u].pc = "write_store"
    /\ pattern_cache.pattern # << EmptyStr >>

\* A write raced with add_words: the vocabulary grew between the call of the
\* write and its reading of the vocabulary, and the pattern holds the new entries.
C13_WitnessGrown ==
    \E t \in Threads :
        /\ threads[t].op = "write" /\ threads[t].pc = "idle"
        /\ threads[t].start # {}
        /\ Range(threads[t].pattern) \ threads[t].start # {}

(***************************************************************************)
(* A destination that fails                                                *)
(***************************************************************************)
\* The stream an instance wraps is closed (by the program or by the runtime
\* at shutdown); its write raises from then on.
Close(inst) ==
    /\ inst \in constructed
    /\ inst \notin closed
    /\ closed' = closed \cup {inst}
    /\ last' = [NoCall EXCEPT !.op = "close", !.inst = inst, !.before = bad_words,
                              !.cache = pattern_cache]
    /\ UNCHANGED << bad_words, pattern_cache, constructed, secrets, files, registered, calls,
                    threads, moduleVars >>

NextDestination ==
    \/ \E values \in FewBatches : AddWords(values)
    \/ \E inst \in StdInstances, message \in FewMessages : Write(inst, message)
    \/ \E inst \in StdInstances : Close(inst)

SpecDestination == Init /\ [][NextDestination]_vars

\* The text a write hands to its destination when it censors in full.
FullyCensored(vocab, text) ==
    IF vocab = {} THEN text ELSE Sub(Compile(SortedByLenDesc(vocab)), text)

\* C14: a write calls the destination's write exactly once, with the fully
\* censored text; it returns what that call returns; when that call fails the
\* failure reaches the caller, and the vocabulary is as it was before the write.
C14_ForwardOnceOrFail ==
    Wrote =>
        /\ last.sent = << FullyCensored(last.before, last.text) >>
        /\ bad_words = last.before
        /\ last.raised <=> last.inst \in closed
        /\ ~last.raised => last.ret = DestinationWrite(last.sent[1])

\* A write of a message holding a vocabulary entry to a closed destination.
C14_Witness ==
    /\ Wrote
    /\ last.raised
    /\ last.before # {}
    /\ last.sent # << last.text >>

\* The values of the parsed JSON objects in the registry that are not strings.
NonStringValues ==
    UNION { IF secrets[f].kind = "dict"
            THEN {secrets[f].d[k] : k \in {x \in DOMAIN secrets[f].d : secrets[f].d[x].t # "str"}}
            ELSE {} : f \in DOMAIN secrets }

\* C15: no operation of SecretManager fails because a parsed JSON object holds
\* a value that is not a string, and no such value (a number, here) is put
\* into the vocabulary.
C15_OnlyStringsInserted ==
    /\ last.op \in {"update_bad_words", "parse_secret", "process_secret_folder"} => ~last.raised
    /\ \A v \in NonStringValues : v.t = "int" => Decimal(v.n) \notin bad_words

\* The words of the secrets in the files under a folder: every top-level value
\* of a JSON object, the stripped text of any other file.
FolderWords(folder) ==
    UNION { LET content == SecretContent(path)
            IN  IF content.kind = "dict"
                THEN {Str(content.d[k]) : k \in DOMAIN content.d}
                ELSE {content.s}
            : path \in {f \in Range(FolderFiles(folder)) : Parses(f)} }

\* C16: when process_secret_folder(folder) has returned, the vocabulary holds
\* every top-level value of every JSON-object file and the stripped text of
\* every other readable file under the folder (for /vault/secrets: "ba", "ab"
\* and "{a}"); a later write through any
\* instance applies a pattern that holds each secret handed to the vocabulary,
\* masks each of its occurrences from the first character on, and forwards a
\* message that is the secret as that many '*'.
C16_FolderSecretsMasked ==
    /\ (last.op = "process_secret_folder" /\ last.ret = 1) =>
           /\ \A w \in FolderWords(last.text[1]) :
                  w \in bad_words /\ << "secrets", w >> \in registered
           /\ last.text[1] = SecretFolder =>
                  {<< "b", "a" >>, AbWord, << "{", "a", "}" >>} \subseteq bad_words
    /\ Wrote =>
           \A r \in registered :
               r[1] = "secrets" =>
                   /\ r[2] \in Range(last.used)
                   /\ \A p \in 1..Len(last.text) :
                         (Len(r[2]) > 0 /\ MatchesAt(r[2], last.text, p)) => last.out[p] = STAR
                   /\ last.text = r[2] => last.out = Stars(Len(r[2]))

\* The folder was processed and returned with the stripped text of the
\* plain-text file and the values of the JSON file in the vocabulary.
C16_WitnessFolder ==
    /\ last.op = "process_secret_folder" /\ last.ret = 1
    /\ {<< "b", "a" >>, AbWord} \subseteq FolderWords(last.text[1])
    /\ FolderWords(last.text[1]) \subseteq bad_words

\* After the folder was processed, a write through the instance constructed
\* later of a message that is a value of the JSON file.
C16_Witness ==
    /\ Wrote
    /\ last.inst = "buffer"
    /\ CredsFile \in Range(files) /\ ApiKeyFile \in Range(files)
    /\ << "secrets", AbWord >> \in registered
    /\ << "buffer", AbWord >> \notin registered /\ << "add_words", AbWord >> \notin registered
    /\ last.text = AbWord
    /\ last.out = Stars(Len(AbWord))

(***************************************************************************)
(* SecretLocations                                                         *)
(***************************************************************************)
GcsDefaultFile == "/vault/secrets/gcp-sa-storage.json"
DsDefaultFile == "/vault/secrets/gcp-credentials.json"
SfDefaultFile == "/vault/secrets/sf_creds.json"

\* DEFAULT_SECRET_PATHS of the modules that register themselves when the
\* package is imported.
Modules == {"DS", "DL", "GCS", "SF"}
DefaultSecretPaths(module) ==
    CASE module = "GCS" -> ("GCS" :> GcsDefaultFile)
      [] module = "DS"  -> ("DS" :> DsDefaultFile)
      [] module = "SF"  -> ("SF" :> SfDefaultFile)
      [] OTHER          -> << >>

\* SecretLocations.__new__: the one instance, created on the first call.
New(inst) == IF inst = 0 THEN 1 ELSE inst

\* SecretLocations.__init__, run by every SecretLocations() call on the
\* instance __new__ returned: the preset attributes are set to "".
InitAttributes(attrs) ==
    [k \in DOMAIN attrs \cup PresetKeys |-> IF k \in PresetKeys THEN NoPath ELSE attrs[k]]

\* dict.update, and setattr for each item
Updated(old, new) ==
    [k \in DOMAIN old \cup DOMAIN new |-> IF k \in DOMAIN new THEN new[k] ELSE old[k]]

\* SecretLocations().update(new_secret_locations, set_attr=set_attr), as
\* CommandLineArguments.__init__ calls it with the --secret_locations argument.
LocationsUpdate(new_secret_locations, set_attr) ==
    /\ instance' = New(instance)
    /\ locations' = Updated(locations, new_secret_locations)
    /\ attributes' = IF set_attr
                     THEN Updated(InitAttributes(attributes), new_secret_locations)
                     ELSE InitAttributes(attributes)
    /\ located' = [NotLocated EXCEPT !.op = IF set_attr THEN "update_attr" ELSE "update",
                                     !.id = instance']
    /\ UNCHANGED << bad_words, pattern_cache, constructed, secrets, files, registered, calls,
                    last, threads, closed, fallback, gcs_uri, gcs_out, ioVars >>

\* Mutant: registering a module updates with all of its default paths.
RegisterModuleOverwrite(module) ==
    /\ instance' = New(instance)
    /\ locations' = Updated(locations, DefaultSecretPaths(module))
    /\ attributes' = Updated(InitAttributes(attributes), DefaultSecretPaths(module))
    /\ located' = [NotLocated EXCEPT !.op = "register_module", !.key = module, !.id = instance']
    /\ UNCHANGED << bad_words, pattern_cache, constructed, secrets, files, registered, calls,
                    last, threads, closed, fallback, gcs_uri, gcs_out, ioVars >>

\* SecretLocations.register_module(module_class)
RegisterModule(module) ==
    /\ instance' = New(instance)
    /\ LET new_paths == [k \in DOMAIN DefaultSecretPaths(module) \ DOMAIN locations |->
                            DefaultSecretPaths(module)[k]]
       IN  /\ locations' = Updated(locations, new_paths)
           /\ attributes' = Updated(InitAttributes(attributes), new_paths)
    /\ located' = [NotLocated EXCEPT !.op = "register_module", !.key = module, !.id = instance']
    /\ UNCHANGED << bad_words, pattern_cache, constructed, secrets, files, registered, calls,
                    last, threads, closed, fallback, gcs_uri, gcs_out, ioVars >>

\* The program reads SecretLocations()[key] and then SecretLocations().key.
Lookup(key) ==
    /\ instance' = New(instance)
    /\ attributes' = InitAttributes(attributes)
    /\ located' = [NotLocated EXCEPT !.op = "lookup", !.key = key, !.id = instance',
                                     !.raised = key \notin DOMAIN locations,
                                     !.item = IF key \in DOMAIN locations
                                              THEN locations[key] ELSE NoPath,
                                     !.attr = attributes'[key]]
    /\ UNCHANGED << bad_words, pattern_cache, constructed, secrets, files, registered, calls,
                    last, threads, closed, locations, fallback, gcs_uri, gcs_out, ioVars >>

\* The --secret_locations arguments of the program.
SecretLocationsArgs ==
    { ("GCS" :> CredsFile), ("GCS" :> AbsentFile), ("SF" :> CredsFile), ("DS" :> ApiKeyFile),
      ("GCS" :> ApiKeyFile) @@ ("SF" :> AbsentFile), << >> }

NextLocations ==
    \/ \E new \in SecretLocationsArgs, set_attr \in BOOLEAN : LocationsUpdate(new, set_attr)
    \/ \E module \in Modules : RegisterModule(module)
    \/ \E key \in PresetKeys : Lookup(key)

SpecLocations == Init /\ [][NextLocations]_vars

\* C17: every SecretLocations() call returns the one instance, and once a
\* preset key has been given a path with set_attr=True, a later
\* SecretLocations()[key] and a later SecretLocations().key both yield the
\* path the key holds.
C17_KeyAndAttributeAgree ==
    /\ located.op # "none" => located.id = instance /\ instance = 1
    /\ (located.op = "lookup" /\ located.key \in DOMAIN locations) =>
           /\ located.item = locations[located.key]
           /\ located.attr = locations[located.key]

(***************************************************************************)
(* BaseModuleUtilities.parse_secret_with_fallback                          *)
(***************************************************************************)
\* No key: fallback_secret_key is None.
NoKey == ""

\* "if not secret_content": None, "" and {} are false.
Truthy(content) ==
    \/ content.kind = "str" /\ content.s # EmptyStr
    \/ content.kind = "dict" /\ DOMAIN content.d # {}

\* SecretManager.parse_secret(path) as one step of the fallback chain, on the
\* registry, the file list and the vocabulary in st.
ParseStep(st, path) ==
    IF ~Parses(path)
    THEN [st EXCEPT !.tried = Append(@, path), !.content = NoContent]
    ELSE LET reg == Registry(st.secrets, path)
         IN  [st EXCEPT !.tried = Append(@, path),
                        !.secrets = reg,
                        !.files = Append(@, path),
                        !.bad_words = AddWordsResult(@, SecretWords(reg)),
                        !.registered = @ \cup {<< "secrets", Str(v) >> : v \in SecretWords(reg)},
                        !.raised = UpdateRaises(reg),
                        !.content = IF UpdateRaises(reg) THEN NoContent ELSE SecretContent(path)]

\* "if secret_location: secret_content = SecretManager.parse_secret(secret_location)"
MainLocation(st, secret_location) ==
    IF secret_location # NoPath THEN ParseStep(st, secret_location) ELSE st

\* "if not secret_content and fallback_secret_key:
\*      secret_content = SecretManager.parse_secret(SecretLocations()[fallback_secret_key])"
\* A key that SecretLocations does not hold raises KeyError.
ClaFallback(st, fallback_secret_key) ==
    IF st.raised \/ Truthy(st.content) \/ fallback_secret_key = NoKey THEN st
    ELSE IF fallback_secret_key \notin DOMAIN locations
         THEN [st EXCEPT !.raised = TRUE, !.content = NoContent, !.looked = TRUE]
         ELSE [ParseStep(st, locations[fallback_secret_key]) EXCEPT !.looked = TRUE]

\* "if not secret_content and fallback_secret_file:
\*      secret_content = SecretManager.parse_secret(fallback_secret_file)"
FileFallback(st, fallback_secret_file) ==
    IF st.raised \/ Truthy(st.content) \/ fallback_secret_file = NoPath THEN st
    ELSE ParseStep(st, fallback_secret_file)

\* BaseModuleUtilities.parse_secret_with_fallback and what it changes, as the constructors
\* of the modules call it.
ParseSecretWithFallbackCall(secret_location, fallback_secret_key, fallback_secret_file) ==
    /\ calls < MaxCalls
    /\ LET st0 == [secrets |-> secrets, files |-> files, bad_words |-> bad_words,
                   registered |-> registered, tried |-> << >>, content |-> NoContent,
                   raised |-> FALSE, looked |-> FALSE]
           st == FileFallback(ClaFallback(MainLocation(st0, secret_location),
                                          fallback_secret_key),
                              fallback_secret_file)
       IN  /\ secrets' = st.secrets
           /\ files' = st.files
           /\ bad_words' = st.bad_words
           /\ registered' = st.registered
           /\ instance' = IF st.looked THEN New(instance) ELSE instance
           /\ attributes' = IF st.looked THEN InitAttributes(attributes) ELSE attributes
           /\ fallback' = [args |-> << secret_location, fallback_secret_key,
                                       fallback_secret_file >>,
                           locations |-> locations, tried |-> st.tried,
                           ret |-> st.content, raised |-> st.raised]
           /\ last' = [NoCall EXCEPT !.op = "parse_secret_with_fallback",
                                     !.before = bad_words, !.cache = pattern_cache,
                                     !.raised = st.raised]
    /\ calls' = calls + 1
    /\ UNCHANGED << pattern_cache, constructed, threads, closed, locations, located, gcs_uri,
                    gcs_out >>

\* The program calls parse_secret_with_fallback.
ParseSecretWithFallback(secret_location, fallback_secret_key, fallback_secret_file) ==
    /\ ParseSecretWithFallbackCall(secret_location, fallback_secret_key, fallback_secret_file)
    /\ UNCHANGED ioVars

\* The paths and the keys the modules pass.
FallbackPaths == {NoPath, CredsFile, EmptyFile, AbsentFile}
FallbackKeys == {NoKey, "GCS"}

NextFallback ==
    \/ \E new \in {("GCS" :> ApiKeyFile)} : LocationsUpdate(new, TRUE)
    \/ \E module \in {"GCS"} : RegisterModule(module)
    \/ \E secret_location \in FallbackPaths, key \in FallbackKeys, file \in FallbackPaths :
          ParseSecretWithFallback(secret_location, key, file)

SpecFallback == Init /\ [][NextFallback]_vars

\* The sources of a call in the order of the claim: the paths it was given or
\* that SecretLocations held under the key, those not given or not held left out.
FallbackSources ==
    LET a == fallback.args
    IN  (IF a[1] # NoPath THEN << a[1] >> ELSE << >>)
        \o (IF a[2] # NoKey /\ a[2] \in DOMAIN fallback.locations
            THEN << fallback.locations[a[2]] >> ELSE << >>)
        \o (IF a[3] # NoPath THEN << a[3] >> ELSE << >>)

\* The content a source yields: SecretContent of a file that can be read.
Yields(path) == Parses(path) /\ Truthy(SecretContent(path))

\* C18: parse_secret_with_fallback parses its sources in the order
\* secret_location, SecretLocations[fallback_secret_key], fallback_secret_file,
\* up to and including the first that yields a non-empty secret, and returns
\* the content of that one; it returns None when none of them yields one.
C18_FallbackOrder ==
    fallback.args # << >> =>
        LET sources == FallbackSources
            hits == {i \in DOMAIN sources : Yields(sources[i])}
        IN  /\ ~fallback.raised
            /\ IF hits = {}
               THEN fallback.tried = sources /\ fallback.ret = NoContent
               ELSE LET first == CHOOSE i \in hits : \A j \in hits : i <= j
                    IN  /\ fallback.tried = SubSeq(sources, 1, first)
                        /\ fallback.ret = SecretContent(sources[first])

(***************************************************************************)
(* GCSUriUtils                                                             *)
(***************************************************************************)
SLASH == "/"
DOT == "."
DotDot == << DOT, DOT >>

\* GCSUriUtils.PREFIX
PREFIX == << "g", "s", ":", SLASH, SLASH >>

\* str.startswith
StartsWith(s, prefix) == Len(s) >= Len(prefix) /\ SubSeq(s, 1, Len(prefix)) = prefix

\* str.removeprefix
RemovePrefix(s, prefix) ==
    IF StartsWith(s, prefix) THEN SubSeq(s, Len(prefix) + 1, Len(s)) ELSE s

\* Mutant: the last "/" is looked for (str.rfind).
FindLast(s, c) ==
    IF \E i \in DOMAIN s : s[i] = c
    THEN (CHOOSE i \in DOMAIN s : s[i] = c /\ \A j \in DOMAIN s : s[j] = c => j <= i) - 1
    ELSE -1

\* str.find: the index, counted from 0, of the first c in s, and -1 when there is none.
Find(s, c) ==
    IF \E i \in DOMAIN s : s[i] = c
    THEN (CHOOSE i \in DOMAIN s : s[i] = c /\ \A j \in DOMAIN s : s[j] = c => i <= j) - 1
    ELSE -1

\* A slice bound as Python reads it: a negative bound counts from the end,
\* and the result is clamped to 0..len.
SliceIndex(s, k) ==
    LET i == IF k < 0 THEN k + Len(s) ELSE k
    IN  IF i < 0 THEN 0 ELSE IF i > Len(s) THEN Len(s) ELSE i

\* s[:stop]
SliceTo(s, stop) == SubSeq(s, 1, SliceIndex(s, stop))

\* s[start:]
SliceFrom(s, start) == SubSeq(s, SliceIndex(s, start) + 1, Len(s))

\* GCSUriUtils.get_components
GetComponents(uri) ==
    IF ~StartsWith(uri, PREFIX)
    THEN [raised |-> TRUE, bucket |-> EmptyStr, path |-> EmptyStr]
    ELSE LET rest == RemovePrefix(uri, PREFIX)
         IN  [raised |-> FALSE,
              bucket |-> SliceTo(rest, Find(rest, SLASH)),
              path |-> SliceFrom(rest, Find(rest, SLASH) + 1)]

RECURSIVE Split(_, _)
\* str.split(c)
Split(s, c) ==
    IF Find(s, c) = -1 THEN << s >>
    ELSE << SubSeq(s, 1, Find(s, c)) >> \o Split(SubSeq(s, Find(s, c) + 2, Len(s)), c)

RECURSIVE Join(_, _)
\* c.join(comps)
Join(comps, c) ==
    IF comps = << >> THEN EmptyStr
    ELSE IF Len(comps) = 1 THEN comps[1]
    ELSE comps[1] \o << c >> \o Join(Tail(comps), c)

RECURSIVE NormComps(_, _, _)
\* The loop of posixpath.normpath over the components: "" and "." are dropped,
\* ".." removes the component before it, or is kept where there is none to
\* remove and the path is relative.
NormComps(comps, new_comps, initial_slashes) ==
    IF comps = << >> THEN new_comps
    ELSE LET comp == Head(comps)
             next ==
                 IF comp \in {EmptyStr, << DOT >>} THEN new_comps
                 ELSE IF \/ comp # DotDot
                         \/ (initial_slashes = 0 /\ new_comps = << >>)
                         \/ (new_comps # << >> /\ new_comps[Len(new_comps)] = DotDot)
                      THEN Append(new_comps, comp)
                      ELSE IF new_comps # << >>
                           THEN SubSeq(new_comps, 1, Len(new_comps) - 1)
                           ELSE new_comps
         IN  NormComps(Tail(comps), next, initial_slashes)

\* The leading slashes normpath keeps: none, one, or two for exactly two.
InitialSlashes(path) ==
    IF ~StartsWith(path, << SLASH >>) THEN 0
    ELSE IF StartsWith(path, << SLASH, SLASH >>) /\ ~StartsWith(path, << SLASH, SLASH, SLASH >>)
         THEN 2 ELSE 1

\* posixpath.normpath
NormPath(path) ==
    IF path = EmptyStr THEN << DOT >>
    ELSE LET slashes == InitialSlashes(path)
             joined == Join(NormComps(Split(path, SLASH), << >>, slashes), SLASH)
             result == (IF slashes = 2 THEN << SLASH, SLASH >>
                        ELSE IF slashes = 1 THEN << SLASH >> ELSE EmptyStr) \o joined
         IN  IF result = EmptyStr THEN << DOT >> ELSE result

\* GCSUriUtils.normalize_uri
NormalizeUri(uri) == PREFIX \o NormPath(RemovePrefix(uri, PREFIX))

\* The longest text after "gs://" among the URIs drawn.
MaxUriLen == 4

\* The URI of the tests, shortened: "gs://a/a/../a/./a".
TestUri == PREFIX \o << "a", SLASH, "a", SLASH, DOT, DOT, SLASH, "a", SLASH, DOT, SLASH, "a" >>

\* The URIs handed to GCSUriUtils: with the prefix, without it, and with a
\* damaged one.
Uris ==
    LET tails == StringsUpTo({"a", SLASH, DOT}, MaxUriLen)
    IN  {PREFIX \o r : r \in tails} \cup tails \cup {<< "g", "s", ":", SLASH >> \o r : r \in tails}
            \cup {TestUri}

InitGcs ==
    /\ bad_words = {}
    /\ pattern_cache = [pattern |-> << EmptyStr >>, version |-> 0]
    /\ constructed = StdInstances
    /\ secrets = << >>
    /\ files = << >>
    /\ registered = {}
    /\ calls = 0
    /\ last = NoCall
    /\ threads = [t \in Threads |-> IdleThread]
    /\ closed = {}
    /\ instance = 0
    /\ locations = << >>
    /\ attributes = << >>
    /\ located = NotLocated
    /\ fallback = NoFallback
    /\ gcs_uri \in Uris
    /\ gcs_out = NoUri
    /\ InitIo

\* The URI the program started from.
Origin == IF gcs_out.op = "none" THEN gcs_uri ELSE gcs_out.origin

\* The program calls GCSUriUtils.normalize_uri and goes on with the result.
CallNormalizeUri ==
    /\ gcs_out.op # "get_components"
    /\ gcs_uri' = NormalizeUri(gcs_uri)
    /\ gcs_out' = [NoUri EXCEPT !.op = "normalize_uri", !.arg = gcs_uri, !.origin = Origin,
                                !.uri = gcs_uri']
    /\ UNCHANGED << bad_words, pattern_cache, constructed, secrets, files, registered, calls,
                    last, threads, closed, instance, locations, attributes, located,
                    fallback, ioVars >>

\* The program calls GCSUriUtils.get_components.
CallGetComponents ==
    /\ gcs_out.op # "get_components"
    /\ gcs_out' = [NoUri EXCEPT !.op = "get_components", !.arg = gcs_uri, !.origin = Origin,
                                !.uri = gcs_out.uri,
                                !.raised = GetComponents(gcs_uri).raised,
                                !.bucket = GetComponents(gcs_uri).bucket,
                                !.path = GetComponents(gcs_uri).path]
    /\ UNCHANGED << bad_words, pattern_cache, constructed, secrets, files, registered, calls,
                    last, threads, closed, instance, locations, attributes, located, fallback,
                    gcs_uri, ioVars >>

NextGcs ==
    \/ CallNormalizeUri
    \/ CallGetComponents

SpecGcs == InitGcs /\ [][NextGcs]_vars

\* C19: get_components raises ValueError exactly when the URI does not start
\* with "gs://"; for "gs://" + bucket + "/" + path, the bucket without "/", it
\* returns (bucket, path), and for "gs://" alone ("", "").
C19_GetComponents ==
    gcs_out.op = "get_components" =>
        /\ gcs_out.raised <=> ~StartsWith(gcs_out.arg, PREFIX)
        /\ \A k \in (Len(PREFIX) + 1)..Len(gcs_out.arg) :
              (/\ StartsWith(gcs_out.arg, PREFIX)
               /\ gcs_out.arg[k] = SLASH
               /\ \A j \in (Len(PREFIX) + 1)..(k - 1) : gcs_out.arg[j] # SLASH)
                  => /\ gcs_out.bucket = SubSeq(gcs_out.arg, Len(PREFIX) + 1, k - 1)
                     /\ gcs_out.path = SubSeq(gcs_out.arg, k + 1, Len(gcs_out.arg))
        /\ gcs_out.arg = PREFIX => gcs_out.bucket = EmptyStr /\ gcs_out.path = EmptyStr

\* get_components returned a bucket and a path that has a "/" in it.
C19_Witness ==
    /\ gcs_out.op = "get_components"
    /\ ~gcs_out.raised
    /\ gcs_out.bucket # EmptyStr
    /\ \E i \in DOMAIN gcs_out.path : gcs_out.path[i] = SLASH
    /\ gcs_out.arg = PREFIX \o gcs_out.bucket \o << SLASH >> \o gcs_out.path

RECURSIVE StaysInside(_, _)
\* The components never climb above the bucket.
StaysInside(comps, depth) ==
    IF comps = << >> THEN TRUE
    ELSE IF Head(comps) \in {EmptyStr, << DOT >>} THEN StaysInside(Tail(comps), depth)
    ELSE IF Head(comps) = DotDot THEN depth > 0 /\ StaysInside(Tail(comps), depth - 1)
    ELSE StaysInside(Tail(comps), depth + 1)

\* C20: for a URI "gs://" + bucket + "/" + path whose path stays inside the
\* bucket, get_components of its normalize_uri returns the bucket and the
\* normalized path.
C20_NormalizeThenComponents ==
    (/\ gcs_out.op = "get_components"
     /\ gcs_out.uri = gcs_out.arg
     /\ StartsWith(gcs_out.origin, PREFIX)) =>
        LET rest == RemovePrefix(gcs_out.origin, PREFIX)
        IN  \A k \in DOMAIN rest :
                LET bucket == SubSeq(rest, 1, k - 1)
                    path == SubSeq(rest, k + 1, Len(rest))
                IN  (/\ rest[k] = SLASH
                     /\ bucket # EmptyStr
                     /\ \A j \in DOMAIN bucket : bucket[j] = "a"
                     /\ StaysInside(Split(path, SLASH), 0))
                        => /\ ~gcs_out.raised
                           /\ gcs_out.bucket = bucket
                           /\ gcs_out.path = Join(NormComps(Split(path, SLASH), << >>, 1), SLASH)

(***************************************************************************)
(* Download: concurrent downloads of a mapping of URLs to local files      *)
(***************************************************************************)
\* The URLs the program asks for, and the local file the mapping gives each of them.
Urls == {"valid", "invalid", "other"}

LocalFile(url) == << "dir", url >>

UrlsToFiles == { [u \in S |-> LocalFile(u)] : S \in SUBSET Urls }

DEFAULT_MAX_WORKERS == 5

Outputs == {"complete", "generator", "futures", "stream"}

\* A future that has a result or an exception.
Finished(d, url) == d.future[url] \in {"ok", "failed"}

\* The tasks a worker of the executor is running.
InProgress(d) == {u \in DOMAIN d.future : d.future[u] \in {"running", "streaming"}}

\* executor.submit for every item of the mapping.
Submitted(urls_to_files, max_workers, output) ==
    [NoDownload EXCEPT !.output = output, !.max_workers = max_workers,
                       !.urls_to_files = urls_to_files,
                       !.future = [u \in DOMAIN urls_to_files |-> "pending"],
                       !.logged = [u \in DOMAIN urls_to_files |-> 0],
                       !.disk = download.disk]

\* Download.download_to_file(urls_to_files, max_workers=.., output=..), up to the point
\* where it first waits for a task: "complete" waits in as_completed, "generator" builds the
\* generator and waits in the exit of the with block (Executor.__exit__ is
\* shutdown(wait=True)), "futures" returns the context at once, anything else raises
\* NotImplementedError.  A call starts when the tasks of the call before it have ended.
DownloadToFile(urls_to_files, max_workers, output) ==
    /\ download.pc \in {"idle", "returned"}
    /\ \A u \in DOMAIN download.future : Finished(download, u)
    /\ LET d == Submitted(urls_to_files, max_workers, output)
           none == DOMAIN urls_to_files = {}
       IN download' =
            CASE output = "complete" ->
                   IF none THEN [d EXCEPT !.pc = "returned", !.ret = "None"]
                   ELSE [d EXCEPT !.pc = "collecting"]
              [] output = "generator" ->
                   IF none THEN [d EXCEPT !.pc = "iterating", !.ret = "generator"]
                   ELSE [d EXCEPT !.pc = "shutdown"]
              [] output = "futures" -> [d EXCEPT !.pc = "returned", !.ret = "context"]
              [] OTHER -> [NoDownload EXCEPT !.pc = "returned", !.output = output,
                                             !.max_workers = max_workers,
                                             !.urls_to_files = urls_to_files,
                                             !.disk = download.disk, !.raised = TRUE]
    /\ UNCHANGED << bad_words, pattern_cache, constructed, secrets, files, registered, calls,
                    last, threads, closed, instance, locations, attributes, located,
                    fallback, gcs_uri, gcs_out, cla, transfer, snowflake >>

\* A worker of the executor takes a submitted task: Download._get_to_file sends the request.
TaskStart(url) ==
    /\ url \in DOMAIN download.future
    /\ download.future[url] = "pending"
    /\ Cardinality(InProgress(download)) < download.max_workers
    /\ download' = [download EXCEPT !.future[url] = "running"]
    /\ UNCHANGED << bad_words, pattern_cache, constructed, secrets, files, registered, calls,
                    last, threads, closed, instance, locations, attributes, located,
                    fallback, gcs_uri, gcs_out, cla, transfer, snowflake >>

\* open(local_file_path, "wb"): the file exists from now on, and it is empty.
OpenWb(disk, path) == [p \in DOMAIN disk \cup {path} |-> IF p = path THEN "partial" ELSE disk[p]]

\* The response arrives.  session.get or raise_for_status raises (answered = FALSE) and the
\* task ends with the exception, or the task opens the local file and starts to stream.
TaskResponse(url, answered) ==
    /\ url \in DOMAIN download.future
    /\ download.future[url] = "running"
    /\ download' =
         IF answered
         THEN [download EXCEPT !.future[url] = "streaming",
                               !.disk = OpenWb(download.disk, download.urls_to_files[url]),
                               !.opened = @ \cup {download.urls_to_files[url]}]
         ELSE [download EXCEPT !.future[url] = "failed"]
    /\ UNCHANGED << bad_words, pattern_cache, constructed, secrets, files, registered, calls,
                    last, threads, closed, instance, locations, attributes, located,
                    fallback, gcs_uri, gcs_out, cla, transfer, snowflake >>

\* The chunks of the response are written.  The stream ends (whole = TRUE) and the task
\* returns (url, local_file_path), or reading a chunk raises and the task ends with the
\* exception: the file stays as far as it was written.
TaskStream(url, whole) ==
    /\ url \in DOMAIN download.future
    /\ download.future[url] = "streaming"
    /\ download' =
         IF whole
         THEN [download EXCEPT !.future[url] = "ok",
                               !.disk[download.urls_to_files[url]] = "full"]
         ELSE [download EXCEPT !.future[url] = "failed"]
    /\ UNCHANGED << bad_words, pattern_cache, constructed, secrets, files, registered, calls,
                    last, threads, closed, instance, locations, attributes, located,
                    fallback, gcs_uri, gcs_out, cla, transfer, snowflake >>

\* future.result() in the except block: an exception is logged for the URL of the future.
Logged(d, url) == IF d.future[url] = "failed" THEN [d.logged EXCEPT ![url] = @ + 1] ELSE d.logged

\* output="complete": one iteration of the as_completed loop, and the return of None after
\* the last one.
Collect(url) ==
    /\ download.pc = "collecting"
    /\ url \in DOMAIN download.future \ download.processed
    /\ Finished(download, url)
    /\ LET processed == download.processed \cup {url}
           last_one == processed = DOMAIN download.future
       IN download' = [download EXCEPT !.processed = processed,
                                       !.logged = Logged(download, url),
                                       !.pc = IF last_one THEN "returned" ELSE @,
                                       !.ret = IF last_one THEN "None" ELSE @]
    /\ UNCHANGED << bad_words, pattern_cache, constructed, secrets, files, registered, calls,
                    last, threads, closed, instance, locations, attributes, located,
                    fallback, gcs_uri, gcs_out, cla, transfer, snowflake >>

\* output="generator": the with block is left when every task has ended, and only then the
\* caller receives the generator.
ExecutorExit ==
    /\ download.pc = "shutdown"
    /\ \A u \in DOMAIN download.future : Finished(download, u)
    /\ download' = [download EXCEPT !.pc = "iterating", !.ret = "generator"]
    /\ UNCHANGED << bad_words, pattern_cache, constructed, secrets, files, registered, calls,
                    last, threads, closed, instance, locations, attributes, located,
                    fallback, gcs_uri, gcs_out, cla, transfer, snowflake >>

\* The futures as_completed can hand over now, by result.
Ready(d, state) == {u \in DOMAIN d.future \ d.processed : d.future[u] = state}

\* next(generator): the loop logs the failed futures it comes across (skipped) and yields
\* the tuple of the first successful one, or it runs out of futures and the generator ends.
GeneratorNext(skipped) ==
    /\ download.pc = "iterating"
    /\ skipped \subseteq Ready(download, "failed")
    /\ LET logged == [u \in DOMAIN download.logged |->
                         IF u \in skipped THEN download.logged[u] + 1 ELSE download.logged[u]]
       IN \/ \E url \in Ready(download, "ok") :
               download' = [download EXCEPT
                              !.processed = @ \cup skipped \cup {url},
                              !.logged = logged,
                              !.yielded = Append(@, << url, download.urls_to_files[url] >>),
                              !.early = @ \/ \E u \in DOMAIN download.future :
                                                  ~Finished(download, u)]
          \/ /\ Ready(download, "ok") = {}
             /\ skipped = Ready(download, "failed")
             /\ download.processed \cup skipped = DOMAIN download.future
             /\ download' = [download EXCEPT !.processed = @ \cup skipped,
                                             !.logged = logged,
                                             !.pc = "returned"]
    /\ UNCHANGED << bad_words, pattern_cache, constructed, secrets, files, registered, calls,
                    last, threads, closed, instance, locations, attributes, located,
                    fallback, gcs_uri, gcs_out, cla, transfer, snowflake >>

NextDownload ==
    \/ \E urls_to_files \in UrlsToFiles, max_workers \in {1, DEFAULT_MAX_WORKERS},
          output \in Outputs : DownloadToFile(urls_to_files, max_workers, output)
    \/ \E url \in Urls : TaskStart(url)
    \/ \E url \in Urls, answered \in BOOLEAN : TaskResponse(url, answered)
    \/ \E url \in Urls, whole \in BOOLEAN : TaskStream(url, whole)
    \/ \E url \in Urls : Collect(url)
    \/ ExecutorExit
    \/ \E skipped \in SUBSET Urls : GeneratorNext(skipped)

SpecDownload == Init /\ [][NextDownload]_vars

\* C21: when a call with output="complete" has returned, it returned None without raising;
\* every URL whose download failed was logged exactly once and no file was created for it;
\* every other URL of the mapping was logged never and its file is complete on disk.
C21_FailureIsolated ==
    (download.pc = "returned" /\ download.output = "complete") =>
        /\ ~download.raised
        /\ download.ret = "None"
        /\ \A u \in DOMAIN download.future :
              /\ download.future[u] = "failed" =>
                    /\ download.logged[u] = 1
                    /\ download.urls_to_files[u] \notin download.opened
              /\ download.future[u] = "ok" =>
                    /\ download.logged[u] = 0
                    /\ download.urls_to_files[u] \in DOMAIN download.disk
                    /\ download.disk[download.urls_to_files[u]] = "full"

\* The tuples the generator has yielded, as a set.
YieldedSet == {download.yielded[i] : i \in DOMAIN download.yielded}

\* C22: in a call with output="generator", whenever a download has finished and its tuple
\* is not consumed yet while another download of the call has not ended, the caller holds
\* the generator and can consume the tuple; and when the generator has ended, it yielded
\* exactly one tuple for every successful download and none for a failed one.
C22_YieldedAsCompleted ==
    download.output = "generator" =>
        /\ (/\ Ready(download, "ok") # {}
            /\ \E v \in DOMAIN download.future : ~Finished(download, v))
              => download.pc = "iterating"
        /\ download.pc = "returned" =>
              /\ YieldedSet = {<< u, download.urls_to_files[u] >> :
                                 u \in {w \in DOMAIN download.future : download.future[w] = "ok"}}
              /\ Len(download.yielded) = Cardinality(YieldedSet)

\* What the code guarantees in generator mode: a tuple is only ever yielded when every
\* download of the call has ended.
NeverYieldedEarly == ~download.early

(***************************************************************************)
(* CommandLineArguments                                                    *)
(***************************************************************************)
\* The members of CommandLineArgumentType and their values: None, False, True.
ArgumentTypes == {"UNUSED", "OPTIONAL", "REQUIRED"}

\* `self.__group.value is not None`: the arguments of the group are added to the parser.
IsRegistered(type) == type # "UNUSED"

\* required=self.__group.value
IsRequired(type) == type = "REQUIRED"

\* bool(member) of an Enum without a mixed-in type: every member is true, UNUSED too.
EnumTruthy(type) == type \in ArgumentTypes

\* The standard groups and the arguments __add_container_args adds for each, in order.
Groups == {"secret_locations", "input_files", "output_files", "identifying_tags"}

GroupArgs(group) ==
    CASE group = "input_files" -> << "--input_bucket_names", "--input_paths", "--input_filenames" >>
      [] group = "output_files" ->
             << "--output_bucket_names", "--output_paths", "--output_filenames" >>
      [] group = "secret_locations" -> << "--secret_locations" >>
      [] group = "identifying_tags" -> << "--dag_id", "--run_id", "--namespace", "--pod_name" >>

ArgSet(group) == {GroupArgs(group)[i] : i \in DOMAIN GroupArgs(group)}

\* The arguments the parser knows after __add_container_args, and the required ones.
RegisteredArgs(types) == UNION {ArgSet(g) : g \in {h \in Groups : IsRegistered(types[h])}}

RequiredArgs(types) == UNION {ArgSet(g) : g \in {h \in Groups : IsRequired(types[h])}}

\* A parser that never objects to arguments it does not know.
ParseErrorRequiredOnly(types, argv, parse_known_args) ==
    IF RequiredArgs(types) \ argv # {} THEN "required" ELSE "none"

\* argparse: parse_known_args fails when a required argument is missing; parse_args calls
\* it and then fails when arguments are left over that the parser does not know.
ParseError(types, argv, parse_known_args) ==
    IF RequiredArgs(types) \ argv # {} THEN "required"
    ELSE IF ~parse_known_args /\ argv \ RegisteredArgs(types) # {} THEN "unrecognized"
    ELSE "none"

\* The value argparse stores for a registered argument: the value on the command line, or
\* the default (None, the SecretLocations object, os.getenv(NAME, "")).
ArgValue(arg, argv, environ) ==
    IF arg = "--secret_locations" THEN (IF arg \in argv THEN "dict" ELSE "SecretLocations")
    ELSE IF arg \in argv THEN "v"
    ELSE IF arg \in DOMAIN environ THEN environ[arg]
    ELSE "None"

Namespace(types, argv, environ) ==
    [arg \in RegisteredArgs(types) |-> ArgValue(arg, argv, environ)]

\* The dictionary json.loads makes of the --secret_locations value on the command line.
SecretLocationsArg == ("GCS" :> CredsFile)

\* CommandLineArguments(secret_locations=.., input_files=.., output_files=..,
\* identifying_tags=.., parse_known_args=..) with argv on the command line, which is the
\* same for every call of a process.  The object is the singleton: __init__ runs on it again.  The types are stored and the arguments added
\* (SecretLocations() is called for the default of --secret_locations) before parsing; a
\* parse error leaves through SystemExit with self.__args as it was; after a successful
\* parse SecretLocations and os.environ are updated from the namespace.
CommandLineArgumentsInit(types, argv, parse_known_args) ==
    LET error == ParseError(types, argv, parse_known_args)
        ok == error = "none"
        args == Namespace(types, argv, cla.environ)
        secret == IsRegistered(types["secret_locations"])
        new == IF "--secret_locations" \in argv THEN SecretLocationsArg ELSE locations
    IN  /\ cla.exists => argv = cla.argv
        /\ cla' = [cla EXCEPT !.exists = TRUE, !.types = types, !.argv = argv,
                              !.parse_known_args = parse_known_args,
                              !.status = IF ok THEN "ok" ELSE "exit",
                              !.error = error,
                              !.args = IF ok THEN args ELSE @,
                              !.environ = IF ok /\ IsRegistered(types["identifying_tags"])
                                          THEN [n \in DOMAIN @ |-> args[n]] ELSE @,
                              !.op = "none", !.ret = "none", !.raised = FALSE]
        /\ instance' = IF secret THEN New(instance) ELSE instance
        /\ locations' = IF secret /\ ok THEN Updated(locations, new) ELSE locations
        /\ attributes' = IF ~secret THEN attributes
                         ELSE IF ok THEN Updated(InitAttributes(attributes), new)
                         ELSE InitAttributes(attributes)
        /\ UNCHANGED << bad_words, pattern_cache, constructed, secrets, files, registered,
                        calls, last, threads, closed, located, fallback, gcs_uri, gcs_out,
                        download, transfer, snowflake >>

\* GCSUriUtils has the static methods normalize_uri and get_components and no build_uris.
HasBuildUris == FALSE

\* get_input_uris ("input_files") and get_output_uris ("output_files"): [] when
\* `not self.__group` holds; else GCSUriUtils.build_uris is looked up and the three
\* attributes of the namespace are read, and a missing one raises AttributeError.
GetUris(group) ==
    /\ cla.exists
    /\ cla' = [cla EXCEPT
                 !.op = group,
                 !.ret = IF ~EnumTruthy(cla.types[group]) THEN "[]"
                         ELSE IF HasBuildUris /\ ArgSet(group) \subseteq DOMAIN cla.args
                         THEN "uris" ELSE "none",
                 !.raised = /\ EnumTruthy(cla.types[group])
                            /\ ~(HasBuildUris /\ ArgSet(group) \subseteq DOMAIN cla.args)]
    /\ UNCHANGED << bad_words, pattern_cache, constructed, secrets, files, registered,
                    calls, last, threads, closed, instance, locations, attributes, located,
                    fallback, gcs_uri, gcs_out, download, transfer, snowflake >>

\* The command lines of the program: for each group none, all, the first or all but the
\* first of its arguments.
Hows == {"none", "all", "first", "rest"}

Supplied(group, how) ==
    CASE how = "none" -> {}
      [] how = "all" -> ArgSet(group)
      [] how = "first" -> {GroupArgs(group)[1]}
      [] how = "rest" -> ArgSet(group) \ {GroupArgs(group)[1]}

CommandLines ==
    { UNION {Supplied(g, how[g]) : g \in Groups} : how \in [Groups -> Hows] }

\* The constructor calls of the program: at most one group is in use, or the input and
\* the output files are both required.
TypeChoices ==
    { types \in [Groups -> ArgumentTypes] :
        \/ Cardinality({g \in Groups : IsRegistered(types[g])}) <= 1
        \/ {g \in Groups : IsRequired(types[g])} = {"input_files", "output_files"}
           /\ {g \in Groups : IsRegistered(types[g])} = {"input_files", "output_files"} }

NextCla ==
    \/ \E types \in TypeChoices, argv \in CommandLines, parse_known_args \in BOOLEAN :
          CommandLineArgumentsInit(types, argv, parse_known_args)
    \/ \E group \in {"input_files", "output_files"} : GetUris(group)

SpecCla == Init /\ [][NextCla]_vars

\* What every call leaves true of the object.
ClaTypeOK == cla.status \in {"none", "ok", "exit"}

\* The group is no cause of a parse error: what it requires is on the command line, and
\* nothing is on the command line that it did not register, unless unknown arguments
\* are let through.
NoObjection(group) ==
    /\ cla.types[group] = "REQUIRED" => ArgSet(group) \subseteq cla.argv
    /\ cla.types[group] = "UNUSED" => (ArgSet(group) \cap cla.argv = {} \/ cla.parse_known_args)

\* C23: after a CommandLineArguments() call, for every standard group: if it is REQUIRED and
\* one of its arguments is missing, the call ended in a parse error about required
\* arguments; if it is OPTIONAL and omitted, and no other group objects, the call succeeded
\* and the namespace holds the group's arguments; if it is UNUSED, its arguments are not in
\* the namespace, and supplying one with parse_known_args=False ended in a parse error,
\* which is the one about unrecognized arguments unless a required argument is missing.
C23_GroupTypes ==
    cla.exists =>
        \A g \in Groups :
            /\ (cla.types[g] = "REQUIRED" /\ ~(ArgSet(g) \subseteq cla.argv))
                  => cla.status = "exit" /\ cla.error = "required"
            /\ (/\ cla.types[g] = "OPTIONAL"
                /\ ArgSet(g) \cap cla.argv = {}
                /\ \A h \in Groups \ {g} : NoObjection(h))
                  => cla.status = "ok" /\ ArgSet(g) \subseteq DOMAIN cla.args
            /\ (cla.types[g] = "UNUSED" /\ cla.status = "ok")
                  => ArgSet(g) \cap DOMAIN cla.args = {}
            /\ (/\ cla.types[g] = "UNUSED"
                /\ ArgSet(g) \cap cla.argv # {}
                /\ ~cla.parse_known_args)
                  => /\ cla.status = "exit"
                     /\ (\A h \in Groups : cla.types[h] = "REQUIRED" => ArgSet(h) \subseteq cla.argv)
                           => cla.error = "unrecognized"

\* C23 witness: the secret locations are required and given, the output files are unused
\* and one of their arguments is given with parse_known_args=False: unrecognized.
C23_Witness ==
    /\ cla.status = "exit"
    /\ cla.error = "unrecognized"
    /\ cla.types["secret_locations"] = "REQUIRED"
    /\ cla.types["output_files"] = "UNUSED"
    /\ cla.argv = {"--secret_locations", "--output_bucket_names"}
    /\ ~cla.parse_known_args

\* C23 witness: two of the four required tags are missing.
C23_WitnessRequired ==
    /\ cla.status = "exit"
    /\ cla.error = "required"
    /\ cla.types["identifying_tags"] = "REQUIRED"
    /\ cla.argv = {"--dag_id"}

\* C30: after get_input_uris with input_files UNUSED, or get_output_uris with output_files
\* UNUSED, the call has returned the empty list and has not raised.
C30_UnusedGivesEmptyList ==
    (cla.op \in {"input_files", "output_files"} /\ cla.types[cla.op] = "UNUSED") =>
        cla.ret = "[]" /\ ~cla.raised

\* The stripped text of a readable file starts with "{" and ends with "}" and is not JSON.
MalformedJson(path) ==
    LET text == Strip(ReadText(path))
    IN  /\ Parses(path)
        /\ text # << >> /\ Head(text) = "{" /\ text[Len(text)] = "}"
        /\ ~JsonLoads(text).ok

\* C24: a parse_secret call on a file whose content is treated as JSON and is not a
\* properly formatted JSON object has raised.
C24_RaisesOnMalformedJson ==
    (last.op = "parse_secret" /\ MalformedJson(last.text[1])) => last.raised

\* C25: a parse_secret call on the path that does not exist returns None without raising
\* and leaves SecretManager.secrets, SecretManager.files and the vocabulary as they were.
C25_AbsentPathNoEffect ==
    [][(last'.op = "parse_secret" /\ last'.text = << AbsentFile >>) =>
          /\ last'.ret = 0
          /\ ~last'.raised
          /\ secrets' = secrets
          /\ files' = files
          /\ bad_words' = bad_words]_vars

\* C25 witness: the call on the absent path was made when secrets were registered and the
\* vocabulary was not empty.
C25_Witness ==
    /\ last.op = "parse_secret"
    /\ last.text = << AbsentFile >>
    /\ last.ret = 0
    /\ DOMAIN secrets # {}
    /\ Len(files) > 0
    /\ bad_words # {}

\* C27: a register_module step leaves every key that SecretLocations held with the path it
\* had, and every key it adds is a key of the module's DEFAULT_SECRET_PATHS, with the
\* module's default path.
C27_RegisterKeepsExisting ==
    [][located'.op = "register_module" =>
          /\ \A k \in DOMAIN locations : k \in DOMAIN locations' /\ locations'[k] = locations[k]
          /\ \A k \in DOMAIN locations' \ DOMAIN locations :
                /\ k \in DOMAIN DefaultSecretPaths(located'.key)
                /\ locations'[k] = DefaultSecretPaths(located'.key)[k]
          /\ \A k \in DOMAIN DefaultSecretPaths(located'.key) : k \in DOMAIN locations']_vars

\* C27 witness: the GCS module was registered after the user had set another GCS path,
\* and SecretLocations also holds a default path that a registration added.
C27_Witness ==
    /\ located.op = "register_module"
    /\ located.key = "GCS"
    /\ "GCS" \in DOMAIN locations /\ locations["GCS"] = CredsFile
    /\ "DS" \in DOMAIN locations /\ locations["DS"] = DsDefaultFile

(***************************************************************************)
(* What the forwarded text still contains                                  *)
(***************************************************************************)
\* Words and messages over a letter, a second letter and the mask character.
MaskAlphabet == {"a", "b", STAR}

MaskBatches == {{StrVal(w)} : w \in StringsUpTo(MaskAlphabet, 2)}

MaskMessages == {StrVal(m) : m \in StringsUpTo(MaskAlphabet, MaxMsgLen)}

\* Any vocabulary add_words can build from these words, then one write.
NextMask ==
    \/ \E values \in MaskBatches : AddWords(values)
    \/ \E message \in MaskMessages : last.op # "write" /\ Write("stdout", message)

SpecMask == Init /\ [][NextMask]_vars

\* `word` is a substring of `text`.
Contains(text, word) == \E p \in 1..(Len(text) + 1) : MatchesAt(word, text, p)

\* C28 as stated: after a write with a non-empty vocabulary the forwarded text contains
\* no vocabulary entry as a substring.
C28_NoEntryInOutput ==
    (Wrote /\ last.before # {}) => \A w \in last.before : ~Contains(last.out, w)

\* An entry that the mask cannot spell: it is not empty and holds no '*'.
Plain(word) == word # EmptyStr /\ \A k \in DOMAIN word : word[k] # STAR

\* C28 amended: after a write with a non-empty vocabulary the forwarded text contains no
\* vocabulary entry that is non-empty and free of '*' as a substring.
C28_NoPlainEntryInOutput ==
    (Wrote /\ last.before # {}) =>
        \A w \in last.before : Plain(w) => ~Contains(last.out, w)

\* C28 witness: two plain entries overlap in the message, one of them is matched and what
\* is left of the other is forwarded.
C28_Witness ==
    /\ Wrote
    /\ {<< "a", "b" >>, << "b", "a" >>} \subseteq last.before
    /\ last.text = << "a", "b", "a" >>
    /\ last.out = << STAR, STAR, "a" >>

\* C28 witness of the exception: the entry "a*" is masked where it occurs and spelled
\* again by the letter before it and the mask.
C28_WitnessStar ==
    /\ Wrote
    /\ << "a", STAR >> \in last.before
    /\ last.text = << "a", "a", STAR >>
    /\ last.out = << "a", STAR, STAR >>

(***************************************************************************)
(* GCSFileIO.download                                                      *)
(***************************************************************************)
\* The items of a download: a tuple (uri, path) whose blob exists, does not exist, or
\* whose uri holds a wildcard; a uri string that matches a blob or none; and a value that
\* is neither a tuple nor a str.
Items ==
    { [type |-> "tuple", blob |-> "exists"], [type |-> "tuple", blob |-> "missing"],
      [type |-> "tuple", blob |-> "wildcard"], [type |-> "str", blob |-> "exists"],
      [type |-> "str", blob |-> "missing"], [type |-> "bytes", blob |-> "none"] }

MaxItems == 3

RECURSIVE ItemLists(_)
ItemLists(n) ==
    IF n = 0 THEN {<< >>}
    ELSE ItemLists(n - 1) \cup {Append(s, i) : s \in {t \in ItemLists(n - 1) : Len(t) = n - 1},
                                               i \in Items}

\* The src_dst arguments: one item by itself, a list, another iterable, or a value that
\* is no iterable (its items are never looked at).
Arguments ==
    {[shape |-> "single", items |-> << i >>] : i \in Items}
        \cup {[shape |-> sh, items |-> l] : sh \in {"list", "iterable"}, l \in ItemLists(MaxItems)}
        \cup {[shape |-> "scalar", items |-> << >>]}

\* "Convert to lists": a str, bytes or tuple becomes a list of one, a list stays, another
\* iterable is listed, anything else raises TypeError.
ToList(src_dst) ==
    IF src_dst.shape = "scalar" THEN [raised |-> TRUE, src_dsts |-> << >>]
    ELSE [raised |-> FALSE, src_dsts |-> src_dst.items]

\* The positions of the items of the given type, in the order of the list.
RECURSIVE Select(_, _, _)
Select(src_dsts, type, i) ==
    IF i > Len(src_dsts) THEN << >>
    ELSE (IF src_dsts[i].type = type THEN << i >> ELSE << >>) \o Select(src_dsts, type, i + 1)

\* "Sort the items": tuples to file_downloads, strings to object_downloads, and TypeError
\* for an item that is neither.
Unsupported(src_dsts) == \E i \in DOMAIN src_dsts : src_dsts[i].type \notin {"tuple", "str"}

\* download_to_file(file_downloads): item by item; a wildcard raises ValueError before
\* the bucket is asked, a blob that does not exist raises FileNotFoundError, and either
\* ends the loop.
RECURSIVE GcsDownloadToFile(_, _, _)
GcsDownloadToFile(src_dsts, file_downloads, k) ==
    IF k > Len(file_downloads) THEN [started |-> << >>, raised |-> "none"]
    ELSE LET i == file_downloads[k]
             this == << [item |-> i, by |-> "download_to_file"] >>
         IN  CASE src_dsts[i].blob = "wildcard" -> [started |-> << >>, raised |-> "ValueError"]
               [] src_dsts[i].blob = "missing" ->
                      [started |-> this, raised |-> "FileNotFoundError"]
               [] OTHER ->
                      LET rest == GcsDownloadToFile(src_dsts, file_downloads, k + 1)
                      IN  [started |-> this \o rest.started, raised |-> rest.raised]

\* download_to_object(object_downloads): every uri is listed, and every blob it matches
\* is downloaded into the dict.
GcsDownloadToObject(src_dsts, object_downloads) ==
    [started |-> [k \in DOMAIN object_downloads |->
                     [item |-> object_downloads[k], by |-> "download_to_object"]],
     keys |-> {object_downloads[k] : k \in {j \in DOMAIN object_downloads :
                                              src_dsts[object_downloads[j]].blob = "exists"}}]

\* Mutant: the objects are downloaded first.
PerformObjectsFirst(src_dsts, file_downloads, object_downloads) ==
    LET objects == GcsDownloadToObject(src_dsts, object_downloads)
        files_ == GcsDownloadToFile(src_dsts, file_downloads, 1)
    IN  [started |-> objects.started \o files_.started,
         raised |-> files_.raised,
         keys |-> IF files_.raised = "none" THEN objects.keys ELSE {}]

\* "Perform downloads": the files if there are any, then the objects if there are any.
Perform(src_dsts, file_downloads, object_downloads) ==
    LET files_ == GcsDownloadToFile(src_dsts, file_downloads, 1)
        objects == GcsDownloadToObject(src_dsts, object_downloads)
    IN  IF files_.raised # "none"
        THEN [started |-> files_.started, raised |-> files_.raised, keys |-> {}]
        ELSE [started |-> files_.started \o objects.started, raised |-> "none",
              keys |-> objects.keys]

\* GCSFileIO.download(src_dst)
GcsDownload(src_dst) ==
    /\ LET listed == ToList(src_dst)
           src_dsts == listed.src_dsts
           done == Perform(src_dsts, Select(src_dsts, "tuple", 1), Select(src_dsts, "str", 1))
           call == [NoTransfer EXCEPT !.op = "download", !.shape = src_dst.shape,
                                      !.src = src_dst.items]
       IN  transfer' =
             IF listed.raised \/ Unsupported(src_dsts)
             THEN [call EXCEPT !.raised = "TypeError"]
             ELSE [call EXCEPT !.started = done.started,
                               !.raised = done.raised,
                               !.ret = IF done.raised = "none" THEN "dict" ELSE "none",
                               !.keys = done.keys]
    /\ UNCHANGED << bad_words, pattern_cache, constructed, secrets, files, registered, calls,
                    last, threads, closed, instance, locations, attributes, located,
                    fallback, gcs_uri, gcs_out, download, cla, snowflake >>

\* A call depends on nothing an earlier call left, so one call from the initial state
\* reaches every state that calls reach.
NextTransfer == \E src_dst \in Arguments : transfer.op = "none" /\ GcsDownload(src_dst)

SpecTransfer == Init /\ [][NextTransfer]_vars

\* The transfers a call started, by the method that handled them.
StartedBy(method) ==
    {transfer.started[k].item : k \in {j \in DOMAIN transfer.started :
                                          transfer.started[j].by = method}}

ItemsOfType(type) == {i \in DOMAIN transfer.src : transfer.src[i].type = type}

\* C26: after GCSFileIO.download, (1) an item that is neither a tuple nor a str made the
\* call raise TypeError with no transfer started; (2) only tuple items went to
\* download_to_file and only string items to download_to_object, and when the call
\* returned every tuple item and every string item was handled, once; (3) a call that
\* returned with tuple items only returned an empty dict; (4) no file download started
\* after an object download.
C26_DispatchByShape ==
    transfer.op = "download" =>
        /\ (\E i \in DOMAIN transfer.src : transfer.src[i].type \notin {"tuple", "str"})
              => transfer.raised = "TypeError" /\ transfer.started = << >>
        /\ StartedBy("download_to_file") \subseteq ItemsOfType("tuple")
        /\ StartedBy("download_to_object") \subseteq ItemsOfType("str")
        /\ transfer.raised = "none" =>
              /\ StartedBy("download_to_file") = ItemsOfType("tuple")
              /\ StartedBy("download_to_object") = ItemsOfType("str")
              /\ Len(transfer.started) = Len(transfer.src)
              /\ transfer.ret = "dict"
              /\ ItemsOfType("str") = {} => transfer.keys = {}
        /\ \A j, k \in DOMAIN transfer.started :
              (j < k /\ transfer.started[j].by = "download_to_object")
                 => transfer.started[k].by = "download_to_object"

\* C26 witness: a string item stands before a tuple item in the input, the call returned,
\* and the file was downloaded first.
C26_Witness ==
    /\ transfer.op = "download"
    /\ transfer.raised = "none"
    /\ Len(transfer.src) = 3
    /\ transfer.src[1].type = "str" /\ transfer.src[2].type = "tuple"
    /\ transfer.started[1] = [item |-> 2, by |-> "download_to_file"]
    /\ transfer.started[2].by = "download_to_object"
    /\ transfer.keys # {}

(***************************************************************************)
(* Snowflake                                                               *)
(***************************************************************************)
\* The two sc.connect attempts of the constructor: with the password, and when that
\* raises (no "password" in the credentials, or the server refuses) with the private key;
\* when that raises too (no "rsa_private_key", or the server refuses) the exception is
\* logged and self.ctx is never assigned.
Connect(sf_creds, password_ok, key_ok) ==
    IF "password" \in DOMAIN sf_creds /\ password_ok THEN "password"
    ELSE IF "rsa_private_key" \in DOMAIN sf_creds /\ key_ok THEN "key_pair"
    ELSE "none"

\* What Snowflake.__init__ raises for the credentials the fallback chain gave.
CredentialsError(chain) ==
    CASE chain.raised -> "Error"
      [] ~Truthy(chain.ret) -> "FileNotFoundError"
      [] chain.ret.kind # "dict" -> "TypeError"
      [] "username" \notin DOMAIN chain.ret.d -> "KeyError"
      [] OTHER -> "none"

\* Snowflake(role, database, schema, warehouse, account, query_tag, sf_secret_location,
\* use_cla_fallback=.., use_file_fallback=..); password_ok and key_ok say whether the server
\* accepts the two ways to authenticate.  The class exists, so the module is registered.
SnowflakeInit(sf_secret_location, use_cla_fallback, use_file_fallback, password_ok, key_ok) ==
    /\ "SF" \in DOMAIN locations
    /\ ParseSecretWithFallbackCall(sf_secret_location,
                                   IF use_cla_fallback THEN "SF" ELSE NoKey,
                                   IF use_file_fallback THEN SfDefaultFile ELSE NoPath)
    /\ snowflake' =
         IF CredentialsError(fallback') # "none"
         THEN [NoSnowflake EXCEPT !.op = "init", !.raised = CredentialsError(fallback')]
         ELSE [NoSnowflake EXCEPT !.op = "init", !.exists = TRUE,
                                  !.ctx = Connect(fallback'.ret.d, password_ok, key_ok)]
    /\ UNCHANGED << download, cla, transfer >>

\* Snowflake.execute(query) on the object the constructor returned: self.ctx.cursor()
\* raises AttributeError when ctx was never assigned.
Execute ==
    /\ snowflake.exists
    /\ snowflake' = [snowflake EXCEPT !.op = "execute",
                                      !.raised = IF snowflake.ctx = "none"
                                                 THEN "AttributeError" ELSE "none",
                                      !.ran = snowflake.ctx # "none"]
    /\ UNCHANGED << bad_words, pattern_cache, constructed, secrets, files, registered, calls,
                    last, threads, closed, instance, locations, attributes, located,
                    fallback, gcs_uri, gcs_out, download, cla, transfer >>

\* The secret locations the program passes to the constructor.
SnowflakeLocations == {NoPath, SnowflakeFile, CredsFile, ApiKeyFile, AbsentFile}

NextSnowflake ==
    \/ \E module \in {"SF"} : RegisterModule(module)
    \/ \E new \in {("SF" :> SnowflakeFile)} : LocationsUpdate(new, TRUE)
    \/ \E sf_secret_location \in SnowflakeLocations,
          use_cla_fallback, use_file_fallback, password_ok, key_ok \in BOOLEAN :
          SnowflakeInit(sf_secret_location, use_cla_fallback, use_file_fallback,
                        password_ok, key_ok)
    \/ Execute

SpecSnowflake == Init /\ [][NextSnowflake]_vars

\* C29: an object the Snowflake constructor returned holds a connection, and an execute on
\* it runs the query and does not fail on a missing connection.
C29_ConnectedWhenConstructed ==
    snowflake.exists =>
        /\ snowflake.ctx # "none"
        /\ snowflake.op = "execute" => snowflake.ran /\ snowflake.raised = "none"

====
